---- MODULE Spec2Model ----
(***************************************************************************)
(* Deduplication and pre-filtering engine of the news aggregator.          *)
(*                                                                         *)
(*   stage2_aggregate.py      deduplicate_articles (aggregation dedup)     *)
(*   stage2_5_deduplicate.py  get_recent_files, extract_urls_from_history, *)
(*                            deduplicate_articles (cross-batch dedup)     *)
(*   src/services/filter_logic.py  contains_blacklisted_keyword,           *)
(*                            filter_by_blacklist                          *)
(*                                                                         *)
(* An article is a record [id, link, title, source, published].  id is the *)
(* identity of the Python dict (its position in the batch it was loaded    *)
(* from); a key that is absent, null or '' is the empty string, which is   *)
(* what article.get(key, '') and the truth tests of the code make of it.   *)
(***************************************************************************)
EXTENDS Integers, Sequences, FiniteSets, TLC

VARIABLES
    pc,                 \* position of the running stage
    raised,             \* name of the exception that left the stage, "" if none
    articles,           \* the batch handed to the stage
    unique_articles,    \* stage2_aggregate: result of deduplicate_articles
    historical_urls,    \* stage2_5: the set built from the history window
    new_articles,       \* stage2_5: first component of deduplicate_articles
    duplicate_articles, \* stage2_5: second component of deduplicate_articles
    rerun_new,          \* stage2_5 run again on new_articles: first component
    rerun_duplicates,   \* stage2_5 run again on new_articles: second component
    files,              \* stage2_5: the history files given to
                        \* extract_urls_from_history, as their contents
    aggregated_dir,     \* get_recent_files: names of the *.json files in
                        \* AGGREGATED_DIR
    now,                \* get_recent_files: datetime.now()
    days,               \* get_recent_files: the argument
    cutoff_date,        \* get_recent_files: local variables
    sorted_files,
    scan_index,
    recent_files,
    BLACKLIST_KEYWORDS, \* filter_logic: the module-level keyword list
    kw_articles,        \* filter_by_blacklist: the argument
    kept_articles,      \* filter_by_blacklist: the three results
    blacklisted_articles,
    blacklist_stats,
    emb_articles,       \* stage3_embed_filter: the articles of the pass
    clusters,           \* stage3_embed_filter: cluster id -> member indices,
                        \* as the sequence of the dict's items
    cluster_scores,     \* score_clusters: cluster id -> score, likewise
    rejected_clusters,  \* score_clusters: the rejected ids and their reasons
    filtered_articles,  \* filter_by_score: the kept articles
    embeddings,         \* cluster_articles: one vector per article
    labels,             \* cluster_articles: clustering.labels_
    rerun_labels,       \* cluster_articles run again on the same vectors
    rerun_clusters,
    embedder_available, \* whether an embedding model can be loaded
    sklearn_available,  \* whether sklearn.cluster can be imported
    MODEL,              \* embedding_service: the module-level model
    pass_entry,         \* the operation that ran the filtering pass
    pass_mode,          \* the filtering mode asked of it
    pass_status,        \* how the pass ended for its caller
    pass_output,        \* the filtered articles handed to the caller
    pass_saved,         \* whether an output file was written
    stats_entry,        \* the function that builds a stats dict
    total_input,        \* its count of input items
    rejected_count,     \* its count of rejected items
    filter_stats,       \* the stats dict it returns
    module_file,        \* stage2_5 main: whether __file__ is an absolute or a relative path
    argv,               \* sys.argv[1:]
    input_path,         \* main: the input file
    dir_contents,       \* the articles of each file of AGGREGATED_DIR
    content,            \* stage5: the digest text, as its lines
    chunks,             \* stage5: result of split_content_by_sections
    messages,           \* stage5: the messages post_to_thread sends
    CATEGORY_EMBEDDINGS_CACHE,\* filter_logic: _CATEGORY_EMBEDDINGS_CACHE
    callers,            \* filter_logic: the threads calling get_blacklist_category_embeddings
    encode_calls,       \* filter_logic: model.encode calls made for each category
    subprocess_result,  \* stage3 remote: what subprocess.run gave
    remote_return,      \* stage3 remote: outcome of filter_via_remote_service
    exit_code           \* stage3 remote: exit status of main, -1 while it runs

ctl == <<pc, raised>>
aggVars == <<unique_articles>>
crossVars == <<historical_urls, new_articles, duplicate_articles>>
rerunVars == <<rerun_new, rerun_duplicates>>
histVars == <<files>>
scanVars == <<aggregated_dir, now, days, cutoff_date, sorted_files, scan_index,
              recent_files>>

kwVars == <<BLACKLIST_KEYWORDS, kw_articles, kept_articles,
            blacklisted_articles, blacklist_stats>>

embVars == <<emb_articles, clusters, cluster_scores, rejected_clusters,
             filtered_articles>>

dbVars == <<embeddings, labels, rerun_labels, rerun_clusters>>

passVars == <<embedder_available, sklearn_available, MODEL, pass_entry,
              pass_mode, pass_status, pass_output, pass_saved>>

statVars == <<stats_entry, total_input, rejected_count, filter_stats>>

mainVars == <<module_file, argv, input_path, dir_contents>>

discordVars == <<content, chunks, messages>>

cacheVars == <<CATEGORY_EMBEDDINGS_CACHE, callers, encode_calls>>

remoteVars == <<subprocess_result, remote_return, exit_code>>
vars == <<ctl, articles, aggVars, crossVars, rerunVars, histVars, scanVars,
          kwVars, embVars, dbVars, passVars, remoteVars, cacheVars,
          discordVars, mainVars, statVars>>

----------------------------------------------------------------------------
(* Bounds and value sets *)

MaxBatch == 3
MaxAggBatch == 3

\* 'published': None (stage1_fetch.py:77) or an ISO timestamp.  Timestamps are
\* compared as strings; the model keeps their order: 0 is a timestamp before
\* the year 1900, Year1900 is the string '1900-01-01', 2 is a later one.
NoPublished == -1
Year1900 == 1
Published == {NoPublished, 0, 2}

Links == {"", "u1", "u2"}
TitleSource == {<<"", "">>, <<"t1", "s1">>, <<"t2", "s1">>}

Article(i, l, ts, p) ==
    [id |-> i, link |-> l, title |-> ts[1], source |-> ts[2], published |-> p]

\* batch is one of the batches of at most n articles with the given
\* published values.
IsBatch(batch, n, pubs) ==
    \E k \in 0..n :
      \E l \in [1..k -> Links], ts \in [1..k -> TitleSource], p \in [1..k -> pubs] :
        batch = [i \in 1..k |-> Article(i, l[i], ts[i], p[i])]

Range(s) == { s[i] : i \in 1..Len(s) }
Ids(s) == { s[i].id : i \in 1..Len(s) }
TitleSourceKey(a) == <<a.title, a.source>>

----------------------------------------------------------------------------
(* stage2_5_deduplicate.py: deduplicate_articles(articles, historical_urls) *)

RECURSIVE DedupLoop(_, _, _, _)
DedupLoop(arts, urls, new, dup) ==
    IF arts = <<>> THEN <<new, dup>>
    ELSE LET article == Head(arts)
             url == article.link
         IN  IF url = ""
                THEN DedupLoop(Tail(arts), urls, Append(new, article), dup)
             ELSE IF url \in urls
                THEN DedupLoop(Tail(arts), urls, new, Append(dup, article))
             ELSE DedupLoop(Tail(arts), urls, Append(new, article), dup)

\* Variant: the membership test without the 'if not url' guard before it.
RECURSIVE DedupLoopNoGuard(_, _, _, _)
DedupLoopNoGuard(arts, urls, new, dup) ==
    IF arts = <<>> THEN <<new, dup>>
    ELSE IF Head(arts).link \in urls
            THEN DedupLoopNoGuard(Tail(arts), urls, new, Append(dup, Head(arts)))
         ELSE DedupLoopNoGuard(Tail(arts), urls, Append(new, Head(arts)), dup)

deduplicate_articles_no_guard(arts, urls) ==
    DedupLoopNoGuard(arts, urls, <<>>, <<>>)

\* Variant: kept links and (title, source) pairs are remembered, so a repeat
\* inside the batch is a duplicate too.
RECURSIVE DedupLoopIntraBatch(_, _, _, _, _)
DedupLoopIntraBatch(arts, urls, seen, new, dup) ==
    IF arts = <<>> THEN <<new, dup>>
    ELSE LET article == Head(arts)
             url == article.link
         IN  IF \/ url # "" /\ url \in urls
                \/ TitleSourceKey(article) \in seen
                THEN DedupLoopIntraBatch(Tail(arts), urls, seen, new,
                                         Append(dup, article))
             ELSE DedupLoopIntraBatch(Tail(arts),
                      IF url # "" THEN urls \cup {url} ELSE urls,
                      seen \cup {TitleSourceKey(article)},
                      Append(new, article), dup)

deduplicate_articles_intra_batch(arts, urls) ==
    DedupLoopIntraBatch(arts, urls, {}, <<>>, <<>>)

\* Variant: an article whose link is not in the history is a duplicate when
\* its (title, source) occurs in a readable history file.
deduplicate_articles_title_source(arts, urls) ==
    LET pairs == UNION { { TitleSourceKey(files[i].articles[j]) :
                              j \in 1..Len(files[i].articles) } :
                          i \in { n \in 1..Len(files) : files[n].loads } }
        isdup(a) == \/ a.link # "" /\ a.link \in urls
                    \/ TitleSourceKey(a) \in pairs
        isnew(a) == ~isdup(a)
    IN  <<SelectSeq(arts, isnew), SelectSeq(arts, isdup)>>

\* Variant: the loop starts at the second article (articles[1:]).
deduplicate_articles_skip_first(arts, urls) ==
    DedupLoop(IF arts = <<>> THEN arts ELSE Tail(arts), urls, <<>>, <<>>)

deduplicate_articles(arts, urls) == DedupLoop(arts, urls, <<>>, <<>>)

----------------------------------------------------------------------------
(* stage2_aggregate.py: deduplicate_articles(articles) *)

\* key=lambda x: x.get('published') or '1900-01-01'
SortKey(a) == IF a.published = NoPublished THEN Year1900 ELSE a.published

\* Variant: ascending order (reverse=True left out).
RECURSIVE InsertAscending(_, _)
InsertAscending(a, s) ==
    IF s = <<>> THEN <<a>>
    ELSE IF SortKey(Head(s)) <= SortKey(a)
            THEN <<Head(s)>> \o InsertAscending(a, Tail(s))
         ELSE <<a>> \o s

\* sorted(..., reverse=True) is stable: equal keys keep their input order.
RECURSIVE InsertDescending(_, _)
InsertDescending(a, s) ==
    IF s = <<>> THEN <<a>>
    ELSE IF SortKey(Head(s)) >= SortKey(a)
            THEN <<Head(s)>> \o InsertDescending(a, Tail(s))
         ELSE <<a>> \o s

RECURSIVE SortLoop(_, _)
SortLoop(arts, acc) ==
    IF arts = <<>> THEN acc
    ELSE SortLoop(Tail(arts), InsertDescending(Head(arts), acc))

sorted_articles(arts) == SortLoop(arts, <<>>)

\* Variant: the (title, source) test only for an article without a link.
IsAggregateDuplicateLinkless(article, seen_urls, seen_title_source) ==
    \/ article.link # "" /\ article.link \in seen_urls
    \/ article.link = "" /\ TitleSourceKey(article) \in seen_title_source

\* Whether the loop body reaches 'continue' for this article.
IsAggregateDuplicate(article, seen_urls, seen_title_source) ==
    \/ article.link # "" /\ article.link \in seen_urls
    \/ TitleSourceKey(article) \in seen_title_source

RECURSIVE AggregateLoop(_, _, _, _)
AggregateLoop(arts, seen_urls, seen_title_source, unique) ==
    IF arts = <<>> THEN unique
    ELSE LET article == Head(arts)
         IN  IF IsAggregateDuplicate(article, seen_urls, seen_title_source)
                THEN AggregateLoop(Tail(arts), seen_urls, seen_title_source, unique)
             ELSE AggregateLoop(Tail(arts),
                      IF article.link # "" THEN seen_urls \cup {article.link}
                                           ELSE seen_urls,
                      seen_title_source \cup {TitleSourceKey(article)},
                      Append(unique, article))

\* The returned list.  The statistics printed before the return divide by
\* len(articles) (line 93): an empty batch raises ZeroDivisionError instead.
stage2_deduplicate_articles(arts) ==
    AggregateLoop(sorted_articles(arts), {}, {}, <<>>)

stage2_deduplicate_raises(arts) ==
    IF Len(arts) = 0 THEN "ZeroDivisionError" ELSE ""

----------------------------------------------------------------------------
(* stage2_5_deduplicate.py: load_aggregated_file, extract_urls_from_history *)

\* A history file is [loads, articles]: whether open() and json.load()
\* succeed, and the 'articles' list of the file (empty when it does not load).
Unreadable == [loads |-> FALSE, articles |-> <<>>]

\* load_aggregated_file: the articles, or an exception.
load_aggregated_file(file) ==
    IF file.loads THEN [raises |-> "", articles |-> file.articles]
    ELSE [raises |-> "Exception", articles |-> <<>>]

\* for article in articles: if 'link' in article and article['link']: urls.add
LinksOf(arts) == { arts[i].link : i \in 1..Len(arts) } \ {""}

\* Variant: the loop without try/except; the first failing load ends it.
RECURSIVE ExtractLoopNoTry(_, _)
ExtractLoopNoTry(fs, urls) ==
    IF fs = <<>> THEN [raises |-> "", urls |-> urls]
    ELSE LET loaded == load_aggregated_file(Head(fs))
         IN  IF loaded.raises # ""
                THEN [raises |-> loaded.raises, urls |-> urls]
             ELSE ExtractLoopNoTry(Tail(fs), urls \cup LinksOf(loaded.articles))

\* The loop over the files: a failing load is caught (except Exception),
\* reported, and the loop continues with the next file.
RECURSIVE ExtractLoop(_, _)
ExtractLoop(fs, urls) ==
    IF fs = <<>> THEN [raises |-> "", urls |-> urls]
    ELSE LET loaded == load_aggregated_file(Head(fs))
         IN  IF loaded.raises # ""
                THEN ExtractLoop(Tail(fs), urls)
             ELSE ExtractLoop(Tail(fs), urls \cup LinksOf(loaded.articles))

extract_urls_from_history(fs) == ExtractLoop(fs, {})

----------------------------------------------------------------------------
(* Cross-batch dedup as a function of any batch and any history set *)

AggIdle == unique_articles = <<>>
CrossIdle == new_articles = <<>> /\ duplicate_articles = <<>>
RerunIdle == rerun_new = <<>> /\ rerun_duplicates = <<>>
HistIdle == files = <<>>
ScanIdle ==
    /\ aggregated_dir = {} /\ now = 0 /\ days = 0 /\ cutoff_date = 0
    /\ sorted_files = <<>> /\ scan_index = 0 /\ recent_files = <<>>
EmbIdle ==
    /\ emb_articles = <<>> /\ clusters = <<>> /\ cluster_scores = <<>>
    /\ rejected_clusters = <<>> /\ filtered_articles = <<>>
DbIdle ==
    /\ embeddings = <<>> /\ labels = <<>> /\ rerun_labels = <<>>
    /\ rerun_clusters = <<>>
StatIdle ==
    /\ stats_entry = ""
    /\ total_input = 0
    /\ rejected_count = 0
    /\ filter_stats = <<>>

\* A path as pathlib compares it: by its parts, without resolving it.
NoPath == [form |-> "", dir |-> "", name |-> 0]
MainIdle ==
    /\ module_file = ""
    /\ argv = <<>>
    /\ input_path = NoPath
    /\ dir_contents = <<>>

DiscordIdle ==
    /\ content = <<>>
    /\ chunks = <<>>
    /\ messages = <<>>

CacheIdle ==
    /\ CATEGORY_EMBEDDINGS_CACHE = <<>>
    /\ callers = <<>>
    /\ encode_calls = <<>>

RemoteIdle ==
    /\ subprocess_result = <<>>
    /\ remote_return = <<>>
    /\ exit_code = -1

PassIdle ==
    /\ embedder_available = TRUE /\ sklearn_available = TRUE
    /\ MODEL = "None" /\ pass_entry = "" /\ pass_mode = ""
    /\ pass_status = "" /\ pass_output = <<>> /\ pass_saved = FALSE
KwIdle ==
    /\ BLACKLIST_KEYWORDS = <<>> /\ kw_articles = <<>>
    /\ kept_articles = <<>> /\ blacklisted_articles = <<>>
    /\ blacklist_stats = <<>>

Init ==
    /\ pc = "start"
    /\ raised = ""
    /\ IsBatch(articles, MaxBatch, {NoPublished})
    /\ historical_urls \in SUBSET Links
    /\ AggIdle /\ CrossIdle /\ RerunIdle /\ HistIdle /\ ScanIdle /\ KwIdle
    /\ EmbIdle /\ DbIdle /\ PassIdle /\ RemoteIdle /\ CacheIdle /\ DiscordIdle
    /\ MainIdle /\ StatIdle

Deduplicate ==
    /\ pc = "start"
    /\ LET r == deduplicate_articles(articles, historical_urls)
       IN  /\ new_articles' = r[1]
           /\ duplicate_articles' = r[2]
    /\ pc' = "deduplicated"
    /\ UNCHANGED <<raised, articles, historical_urls, aggVars, rerunVars,
                   histVars, scanVars, kwVars, embVars, dbVars, passVars,
                   remoteVars, cacheVars, discordVars, mainVars, statVars>>

\* The stage run a second time, on its own output, history unchanged.
Rerun ==
    /\ pc = "deduplicated"
    /\ LET r == deduplicate_articles(new_articles, historical_urls)
       IN  /\ rerun_new' = r[1]
           /\ rerun_duplicates' = r[2]
    /\ pc' = "rerun"
    /\ UNCHANGED <<raised, articles, aggVars, crossVars, histVars, scanVars,
                   kwVars, embVars, dbVars, passVars, remoteVars, cacheVars,
                   discordVars, mainVars, statVars>>

Next == Deduplicate \/ Rerun

Spec == Init /\ [][Next]_vars

----------------------------------------------------------------------------
(* The pipeline: aggregation dedup of a raw batch, then cross-batch dedup   *)
(* of the aggregated batch against a history set                            *)

PipelineHistories == SUBSET {"u1"}

InitAgg ==
    /\ pc = "start"
    /\ raised = ""
    /\ IsBatch(articles, MaxAggBatch, Published)
    /\ historical_urls = {}
    /\ AggIdle /\ CrossIdle /\ RerunIdle /\ HistIdle /\ ScanIdle /\ KwIdle
    /\ EmbIdle /\ DbIdle /\ PassIdle /\ RemoteIdle /\ CacheIdle /\ DiscordIdle
    /\ MainIdle /\ StatIdle

AggregateDedup ==
    /\ pc = "start"
    /\ stage2_deduplicate_raises(articles) = ""
    /\ unique_articles' = stage2_deduplicate_articles(articles)
    /\ pc' = "aggregated"
    /\ UNCHANGED <<raised, articles, crossVars, rerunVars, histVars, scanVars,
                   kwVars, embVars, dbVars, passVars, remoteVars, cacheVars,
                   discordVars, mainVars, statVars>>

AggregateDedupFails ==
    /\ pc = "start"
    /\ stage2_deduplicate_raises(articles) # ""
    /\ raised' = stage2_deduplicate_raises(articles)
    /\ pc' = "failed"
    /\ UNCHANGED <<articles, aggVars, crossVars, rerunVars, histVars,
                   scanVars, kwVars, embVars, dbVars, passVars, remoteVars,
                   cacheVars, discordVars, mainVars, statVars>>

\* stage2_5 main: the aggregated file is the input batch.
DeduplicateAggregated ==
    /\ pc = "aggregated"
    /\ \E urls \in PipelineHistories :
          /\ historical_urls' = urls
          /\ LET r == deduplicate_articles(unique_articles, urls)
             IN  /\ new_articles' = r[1]
                 /\ duplicate_articles' = r[2]
    /\ pc' = "pipeline_deduplicated"
    /\ UNCHANGED <<raised, articles, aggVars, rerunVars, histVars, scanVars,
                   kwVars, embVars, dbVars, passVars, remoteVars, cacheVars,
                   discordVars, mainVars, statVars>>

NextAgg == AggregateDedup \/ AggregateDedupFails \/ DeduplicateAggregated

SpecAgg == InitAgg /\ [][NextAgg]_vars

----------------------------------------------------------------------------
(* History construction from the files of the window, then cross-batch      *)
(* dedup of a batch against it (stage2_5 main, lines 161-168)               *)

MaxHistFiles == 2
MaxFileArticles == 1
MaxHistBatch == 2

\* The articles of history files all carry one (title, source); the batch
\* draws from two, so that it can repeat a pair of the history or not.
HistoryTitleSource == <<"t1", "s1">>
BatchTitleSource == {<<"t1", "s1">>, <<"t2", "s1">>}

HistoryFiles ==
    {Unreadable} \cup
    { [loads |-> TRUE,
       articles |-> [i \in DOMAIN l |->
                        Article(i, l[i], HistoryTitleSource, NoPublished)]] :
        l \in UNION { [1..k -> Links] : k \in 0..MaxFileArticles } }

IsHistBatch(batch) ==
    \E k \in 0..MaxHistBatch :
      \E l \in [1..k -> Links], ts \in [1..k -> BatchTitleSource] :
        batch = [i \in 1..k |-> Article(i, l[i], ts[i], NoPublished)]

InitHist ==
    /\ pc = "start"
    /\ raised = ""
    /\ \E n \in 0..MaxHistFiles : files \in [1..n -> HistoryFiles]
    /\ IsHistBatch(articles)
    /\ historical_urls = {}
    /\ AggIdle /\ CrossIdle /\ RerunIdle /\ ScanIdle /\ KwIdle /\ EmbIdle
    /\ DbIdle /\ PassIdle /\ RemoteIdle /\ CacheIdle /\ DiscordIdle
    /\ MainIdle /\ StatIdle

\* An exception that leaves extract_urls_from_history ends main.
ExtractHistory ==
    /\ pc = "start"
    /\ LET r == extract_urls_from_history(files)
       IN  /\ raised' = r.raises
           /\ historical_urls' = IF r.raises = "" THEN r.urls ELSE historical_urls
           /\ pc' = IF r.raises = "" THEN "extracted" ELSE "failed"
    /\ UNCHANGED <<articles, new_articles, duplicate_articles,
                   aggVars, rerunVars, histVars, scanVars, kwVars, embVars,
                   dbVars, passVars, remoteVars, cacheVars, discordVars,
                   mainVars, statVars>>

DeduplicateAgainstHistory ==
    /\ pc = "extracted"
    /\ LET r == deduplicate_articles(articles, historical_urls)
       IN  /\ new_articles' = r[1]
           /\ duplicate_articles' = r[2]
    /\ pc' = "history_deduplicated"
    /\ UNCHANGED <<raised, articles, historical_urls, aggVars, rerunVars,
                   histVars, scanVars, kwVars, embVars, dbVars, passVars,
                   remoteVars, cacheVars, discordVars, mainVars, statVars>>

NextHist == ExtractHistory \/ DeduplicateAgainstHistory

SpecHist == InitHist /\ [][NextHist]_vars

----------------------------------------------------------------------------
(* stage2_5_deduplicate.py: get_recent_files(days)                          *)
(*                                                                         *)
(* A file name is a natural number; the order of the numbers is the order  *)
(* of the names as strings.  Per calendar day d there are three names:     *)
(* 3d and 3d+1 are YYYYMMDD_HHMMSS.json names of that day (an earlier and  *)
(* a later time), 3d+2 is a name that sorts after them and whose stem      *)
(* before the first '_' is no %Y%m%d date.  Time is counted in half days:  *)
(* 2d is midnight of day d, 2d+1 is noon.                                  *)

MaxDay == 9
MaxFiles == 3
LOOKBACK_DAYS == 7
Today == MaxDay - 1
FileNames == 0..(3 * MaxDay + 2)
Midnight(d) == 2 * d
timedelta(d) == 2 * d

\* date_str = file_path.stem.split('_')[0]
\* file_date = datetime.strptime(date_str, '%Y%m%d')
strptime(name) ==
    IF name % 3 = 2 THEN [raises |-> "ValueError", date |-> 0]
    ELSE [raises |-> "", date |-> Midnight(name \div 3)]

\* sorted(AGGREGATED_DIR.glob('*.json'), reverse=True)
RECURSIVE SortedReverse(_)
SortedReverse(names) ==
    IF names = {} THEN <<>>
    ELSE LET top == CHOOSE n \in names : \A other \in names : other <= n
         IN  <<top>> \o SortedReverse(names \ {top})

\* Variant: file_date > cutoff_date.
InWindowStrict(file_date, cutoff) == file_date > cutoff

\* if file_date >= cutoff_date
InWindow(file_date, cutoff) == file_date >= cutoff

InitScan ==
    /\ pc = "start"
    /\ raised = ""
    /\ \E k \in 0..MaxFiles :
          \E f \in [1..k -> FileNames] :
             /\ \A i \in 1..(k - 1) : f[i] < f[i + 1]
             /\ aggregated_dir = { f[i] : i \in 1..k }
    /\ now \in {Midnight(Today), Midnight(Today) + 1}
    /\ days \in {1, LOOKBACK_DAYS}
    /\ cutoff_date = 0 /\ sorted_files = <<>> /\ scan_index = 0
    /\ recent_files = <<>>
    /\ articles = <<>>
    /\ historical_urls = {}
    /\ AggIdle /\ CrossIdle /\ RerunIdle /\ HistIdle /\ KwIdle /\ EmbIdle
    /\ DbIdle /\ PassIdle /\ RemoteIdle /\ CacheIdle /\ DiscordIdle
    /\ MainIdle /\ StatIdle

scanFrame == <<raised, articles, aggVars, crossVars, rerunVars, histVars,
               kwVars, embVars, dbVars, passVars, remoteVars, cacheVars,
               discordVars, mainVars, statVars, aggregated_dir, now, days>>

\* Lines 39-42: the cutoff, the empty result, the sorted listing.
ScanStart ==
    /\ pc = "start"
    /\ cutoff_date' = now - timedelta(days)
    /\ recent_files' = <<>>
    /\ sorted_files' = SortedReverse(aggregated_dir)
    /\ scan_index' = 1
    /\ pc' = "scanning"
    /\ UNCHANGED scanFrame

\* Lines 48-49: the date of the name is in the window.
ScanAppend ==
    /\ pc = "scanning" /\ scan_index <= Len(sorted_files)
    /\ LET parsed == strptime(sorted_files[scan_index])
       IN  /\ parsed.raises = ""
           /\ InWindow(parsed.date, cutoff_date)
    /\ recent_files' = Append(recent_files, sorted_files[scan_index])
    /\ scan_index' = scan_index + 1
    /\ UNCHANGED <<pc, cutoff_date, sorted_files, scanFrame>>

\* Lines 50-52: the first date outside the window ends the loop.
ScanBreak ==
    /\ pc = "scanning" /\ scan_index <= Len(sorted_files)
    /\ LET parsed == strptime(sorted_files[scan_index])
       IN  /\ parsed.raises = ""
           /\ ~InWindow(parsed.date, cutoff_date)
    /\ pc' = "scanned"
    /\ UNCHANGED <<cutoff_date, sorted_files, scan_index, recent_files,
                   scanFrame>>

\* Variant: the except clause ends the loop instead of continuing.
ScanSkipStops ==
    /\ pc = "scanning" /\ scan_index <= Len(sorted_files)
    /\ strptime(sorted_files[scan_index]).raises # ""
    /\ pc' = "scanned"
    /\ UNCHANGED <<cutoff_date, sorted_files, scan_index, recent_files,
                   scanFrame>>

\* Lines 53-55: a name without a date is skipped.
ScanSkip ==
    /\ pc = "scanning" /\ scan_index <= Len(sorted_files)
    /\ strptime(sorted_files[scan_index]).raises # ""
    /\ scan_index' = scan_index + 1
    /\ UNCHANGED <<pc, cutoff_date, sorted_files, recent_files, scanFrame>>

\* Line 57: the listing is exhausted.
ScanReturn ==
    /\ pc = "scanning" /\ scan_index > Len(sorted_files)
    /\ pc' = "scanned"
    /\ UNCHANGED <<cutoff_date, sorted_files, scan_index, recent_files,
                   scanFrame>>

NextScan == ScanStart \/ ScanAppend \/ ScanBreak \/ ScanSkip \/ ScanReturn

SpecScan == InitScan /\ [][NextScan]_vars

----------------------------------------------------------------------------
(* src/services/filter_logic.py: contains_blacklisted_keyword and          *)
(* filter_by_blacklist                                                     *)
(*                                                                         *)
(* A string is a sequence of one-character strings.                        *)

MaxKwBatch == 2
MaxKeywords == 2

\* str.lower() on one character.
LowerChar(c) ==
    CASE c = "B" -> "b"
      [] c = "L" -> "l"
      [] OTHER -> c

\* str.lower()
lower(text) == [i \in 1..Len(text) |-> LowerChar(text[i])]

\* needle in haystack, for strings
In(needle, haystack) ==
    \E start \in 0..(Len(haystack) - Len(needle)) :
        SubSeq(haystack, start + 1, start + Len(needle)) = needle

Titles == {<<"a">>, <<"B">>}
Contents == {<<>>, <<"b">>, <<"l">>, <<"L", "B">>}
Keywords == {<<>>, <<"b">>, <<"B">>, <<"l", "b">>, <<"a", " ", "b">>, <<"x">>}

\* The default of the keywords parameter, and a list given by the caller.
None == [none |-> TRUE, list |-> <<>>]
Given(list) == [none |-> FALSE, list |-> list]

\* Variant: the text is compared as it is.
RECURSIVE KeywordLoopCaseSensitive(_, _)
KeywordLoopCaseSensitive(text, keywords) ==
    IF keywords = <<>> THEN [is_blacklisted |-> FALSE, keyword |-> <<>>]
    ELSE IF In(lower(Head(keywords)), text)
         THEN [is_blacklisted |-> TRUE, keyword |-> Head(keywords)]
         ELSE KeywordLoopCaseSensitive(text, Tail(keywords))

contains_blacklisted_keyword_case_sensitive(text, keywords) ==
    KeywordLoopCaseSensitive(text,
        IF keywords.none THEN BLACKLIST_KEYWORDS ELSE keywords.list)

\* Variant: the last keyword of the list that matches is returned.
RECURSIVE KeywordLoopLast(_, _)
KeywordLoopLast(text_lower, keywords) ==
    IF keywords = <<>> THEN [is_blacklisted |-> FALSE, keyword |-> <<>>]
    ELSE LET rest == KeywordLoopLast(text_lower, Tail(keywords))
         IN  IF rest.is_blacklisted THEN rest
             ELSE IF In(lower(Head(keywords)), text_lower)
                  THEN [is_blacklisted |-> TRUE, keyword |-> Head(keywords)]
                  ELSE rest

\* Lines 84-87: the first keyword whose lowercase form is in text_lower.
RECURSIVE KeywordLoop(_, _)
KeywordLoop(text_lower, keywords) ==
    IF keywords = <<>> THEN [is_blacklisted |-> FALSE, keyword |-> <<>>]
    ELSE IF In(lower(Head(keywords)), text_lower)
         THEN [is_blacklisted |-> TRUE, keyword |-> Head(keywords)]
         ELSE KeywordLoop(text_lower, Tail(keywords))

contains_blacklisted_keyword(text, keywords) ==
    KeywordLoop(lower(text),
        IF keywords.none THEN BLACKLIST_KEYWORDS ELSE keywords.list)

\* f"{article['title']} {article['content']}"
ArticleText(article) == article.title \o <<" ">> \o article.content

\* blacklist_stats[keyword] = blacklist_stats.get(keyword, 0) + 1, the dict
\* as the sequence of its items in insertion order.
StatsIncrement(stats, keyword) ==
    IF \E i \in 1..Len(stats) : stats[i].keyword = keyword
    THEN [i \in 1..Len(stats) |->
            IF stats[i].keyword = keyword
            THEN [keyword |-> keyword, count |-> stats[i].count + 1]
            ELSE stats[i]]
    ELSE Append(stats, [keyword |-> keyword, count |-> 1])

\* Variant: the lists grow at the front.
RECURSIVE FilterLoopPrepend(_, _, _, _)
FilterLoopPrepend(arts, kept, blacklisted, stats) ==
    IF arts = <<>>
    THEN [kept_articles |-> kept, blacklisted_articles |-> blacklisted,
          blacklist_stats |-> stats]
    ELSE LET article == Head(arts)
             result == contains_blacklisted_keyword(ArticleText(article), None)
         IN  IF result.is_blacklisted
             THEN FilterLoopPrepend(Tail(arts), kept, <<article>> \o blacklisted,
                                    StatsIncrement(stats, result.keyword))
             ELSE FilterLoopPrepend(Tail(arts), <<article>> \o kept, blacklisted, stats)

\* Lines 104-112.
RECURSIVE FilterLoop(_, _, _, _)
FilterLoop(arts, kept, blacklisted, stats) ==
    IF arts = <<>>
    THEN [kept_articles |-> kept, blacklisted_articles |-> blacklisted,
          blacklist_stats |-> stats]
    ELSE LET article == Head(arts)
             result == contains_blacklisted_keyword(ArticleText(article), None)
         IN  IF result.is_blacklisted
             THEN FilterLoop(Tail(arts), kept, Append(blacklisted, article),
                             StatsIncrement(stats, result.keyword))
             ELSE FilterLoop(Tail(arts), Append(kept, article), blacklisted, stats)

filter_by_blacklist(arts) == FilterLoop(arts, <<>>, <<>>, <<>>)

KwArticle(i, t, c) == [id |-> i, title |-> t, content |-> c]

InitKw ==
    /\ pc = "start"
    /\ raised = ""
    /\ \E n \in 0..MaxKeywords :
          \E list \in [1..n -> Keywords] : BLACKLIST_KEYWORDS = list
    /\ \E n \in 0..MaxKwBatch :
          \E t \in [1..n -> Titles], c \in [1..n -> Contents] :
             kw_articles = [i \in 1..n |-> KwArticle(i, t[i], c[i])]
    /\ kept_articles = <<>> /\ blacklisted_articles = <<>>
    /\ blacklist_stats = <<>>
    /\ articles = <<>>
    /\ historical_urls = {}
    /\ AggIdle /\ CrossIdle /\ RerunIdle /\ HistIdle /\ ScanIdle /\ EmbIdle
    /\ DbIdle /\ PassIdle /\ RemoteIdle /\ CacheIdle /\ DiscordIdle
    /\ MainIdle /\ StatIdle

FilterByBlacklist ==
    /\ pc = "start"
    /\ LET result == filter_by_blacklist(kw_articles)
       IN  /\ kept_articles' = result.kept_articles
           /\ blacklisted_articles' = result.blacklisted_articles
           /\ blacklist_stats' = result.blacklist_stats
    /\ pc' = "filtered"
    /\ UNCHANGED <<raised, articles, aggVars, crossVars, rerunVars, histVars,
                   scanVars, embVars, dbVars, passVars, remoteVars, cacheVars,
                   discordVars, mainVars, statVars, BLACKLIST_KEYWORDS,
                   kw_articles>>

NextKw == FilterByBlacklist

SpecKw == InitKw /\ [][NextKw]_vars

----------------------------------------------------------------------------
(* stage3_embed_filter.py: filter_by_score(articles, clusters,             *)
(* cluster_scores)                                                         *)
(*                                                                         *)
(* A dict is the sequence of its items in insertion order.  The indices of *)
(* the code start at 0, the positions of a sequence at 1: index i of the   *)
(* code is position i + 1 here.                                            *)

MaxEmbBatch == 6
ClusterCap == 5
\* The dict of an article has no key 'published'.
Absent == -2
PublishedKeys == {Absent, NoPublished, 2}
ClusterLabels == {0, 1}
ClusterScores == {0, 100}

EmbArticle(i, t, c, p) == [id |-> i, title |-> t, content |-> c, published |-> p]

\* clusters[label].append(idx) for idx, label in enumerate(labels)
RECURSIVE GroupLoop(_, _, _)
GroupLoop(lbl, idx, grouped) ==
    IF idx > Len(lbl) THEN grouped
    ELSE IF \E k \in 1..Len(grouped) : grouped[k].id = lbl[idx]
         THEN GroupLoop(lbl, idx + 1,
                [k \in 1..Len(grouped) |->
                    IF grouped[k].id = lbl[idx]
                    THEN [id |-> grouped[k].id,
                          article_indices |-> Append(grouped[k].article_indices, idx)]
                    ELSE grouped[k]])
         ELSE GroupLoop(lbl, idx + 1,
                Append(grouped, [id |-> lbl[idx], article_indices |-> <<idx>>]))

GroupByLabel(lbl) == GroupLoop(lbl, 1, <<>>)

\* cluster_scores[cluster_id]
ScoreOf(scores, cluster_id) ==
    (CHOOSE entry \in Range(scores) : entry.id = cluster_id).score

\* [articles[i] for i in article_indices]
Members(arts, article_indices) ==
    [k \in 1..Len(article_indices) |-> arts[article_indices[k]]]

\* key=lambda x: x.get('published', '1900-01-01')
CapKey(x) == IF x.published = Absent THEN Year1900 ELSE x.published

\* sorted() compares the keys with <: None and a string, or None and None,
\* raise TypeError.  Every element of a list of two or more is compared.
CapSortRaises(members) ==
    /\ Len(members) >= 2
    /\ \E k \in 1..Len(members) : CapKey(members[k]) = NoPublished

RECURSIVE CapInsertDescending(_, _)
CapInsertDescending(a, s) ==
    IF s = <<>> THEN <<a>>
    ELSE IF CapKey(Head(s)) >= CapKey(a)
            THEN <<Head(s)>> \o CapInsertDescending(a, Tail(s))
         ELSE <<a>> \o s

RECURSIVE CapSortLoop(_, _)
CapSortLoop(members, acc) ==
    IF members = <<>> THEN acc
    ELSE CapSortLoop(Tail(members), CapInsertDescending(Head(members), acc))

\* Variant: the sorted list without the slice.
MostRecentUncut(members) == CapSortLoop(members, <<>>)

\* sorted(cluster_articles, key=..., reverse=True)[:5]
MostRecent(members) == SubSeq(CapSortLoop(members, <<>>), 1, ClusterCap)

\* Variant: score >= 0.
IsAcceptedOrZero(score) == score >= 0

\* if score > 0
IsAccepted(score) == score > 0

\* Lines 251-274: the loop over the clusters; an exception ends it.
RECURSIVE FilterByScoreLoop(_, _, _, _)
FilterByScoreLoop(arts, cls, scores, kept) ==
    IF cls = <<>> THEN [raises |-> "", kept_articles |-> kept]
    ELSE LET cluster_articles == Members(arts, Head(cls).article_indices)
         IN  IF ~IsAccepted(ScoreOf(scores, Head(cls).id))
             THEN FilterByScoreLoop(arts, Tail(cls), scores, kept)
             ELSE IF Len(cluster_articles) <= ClusterCap
             THEN FilterByScoreLoop(arts, Tail(cls), scores, kept \o cluster_articles)
             ELSE IF CapSortRaises(cluster_articles)
             THEN [raises |-> "TypeError", kept_articles |-> <<>>]
             ELSE FilterByScoreLoop(arts, Tail(cls), scores,
                                    kept \o MostRecent(cluster_articles))

\* The list is returned after the statistics are printed; line 295 divides
\* by len(articles).
filter_by_score(arts, cls, scores) ==
    LET looped == FilterByScoreLoop(arts, cls, scores, <<>>)
    IN  IF looped.raises # "" THEN looped
        ELSE IF Len(arts) = 0
             THEN [raises |-> "ZeroDivisionError", kept_articles |-> <<>>]
             ELSE looped

\* Labels as DBSCAN numbers them: 0, 1, ... in the order of first occurrence.
IsLabelling(lbl) ==
    \A i \in 1..Len(lbl) :
        lbl[i] = 0 \/ \E j \in 1..(i - 1) : lbl[j] = lbl[i] - 1

\* The batches of the selection: every article has a timestamp or lacks the
\* key, and at most one article of the batch carries 'published': None.
AtMostOneNull(p) ==
    \A i, j \in DOMAIN p :
        (p[i] = NoPublished /\ p[j] = NoPublished) => i = j

\* The state after score_clusters, for any scores it can return.
InitSel ==
    /\ pc = "scored"
    /\ raised = ""
    /\ \E n \in 0..MaxEmbBatch :
          /\ \E p \in [1..n -> PublishedKeys] :
                /\ AtMostOneNull(p)
                /\ emb_articles = [i \in 1..n |-> EmbArticle(i, <<"a">>, <<>>, p[i])]
          /\ \E lbl \in [1..n -> ClusterLabels] :
                /\ IsLabelling(lbl)
                /\ clusters = GroupByLabel(lbl)
    /\ \E score \in [{clusters[k].id : k \in 1..Len(clusters)} -> ClusterScores] :
          cluster_scores = [k \in 1..Len(clusters) |->
                              [id |-> clusters[k].id, score |-> score[clusters[k].id]]]
    /\ rejected_clusters = <<>>
    /\ filtered_articles = <<>>
    /\ articles = <<>>
    /\ historical_urls = {}
    /\ AggIdle /\ CrossIdle /\ RerunIdle /\ HistIdle /\ ScanIdle /\ KwIdle
    /\ DbIdle /\ PassIdle /\ RemoteIdle /\ CacheIdle /\ DiscordIdle
    /\ MainIdle /\ StatIdle

\* main, line 350: filtered_articles = filter_by_score(...)
FilterByScore ==
    /\ pc = "scored"
    /\ LET result == filter_by_score(emb_articles, clusters, cluster_scores)
       IN  /\ raised' = result.raises
           /\ filtered_articles' = result.kept_articles
           /\ pc' = IF result.raises = "" THEN "selected" ELSE "failed"
    /\ UNCHANGED <<articles, aggVars, crossVars, rerunVars, histVars, scanVars,
                   kwVars, dbVars, passVars, remoteVars, cacheVars,
                   discordVars, mainVars, statVars, emb_articles, clusters,
                   cluster_scores,
                   rejected_clusters>>

NextSel == FilterByScore

SpecSel == InitSel /\ [][NextSel]_vars

----------------------------------------------------------------------------
(* stage3_embed_filter.py: score_clusters(articles, clusters, labels)      *)

MaxScoreBatch == 2
ContentPrefix == 200

\* The two keyword lists of the function: blacklist holds a two-letter word,
\* a one-letter word that is part of it, a keyword that ends with a
\* character that is no word character (as 'cve-'), and a keyword of two
\* words (as 'champions league'); relevance holds a keyword that is part of
\* another (as 'ai' and 'openai').
blacklist == << <<"b", "l">>, <<"l">>, <<"b", "-">>, <<"l", "a", " ", "a">> >>
relevance == << <<"a">>, <<"a", "b">>, <<"l", "a">> >>

ScoreTitles == { <<"a">>, <<"B", "L">>, <<"l">>, <<"a", "b", "l">>,
                 <<"b", "-", "a">>, <<"b", "-">> }
ScoreContents == { <<>>, <<"l", "a">>, <<"b", "l">> }

\* \w of the regular expression.
IsWordChar(c) == c \in {"a", "b", "l", "B", "L"}

\* \b at the position between text[p] and text[p + 1].
WordBoundary(text, p) ==
    LET before == p >= 1 /\ IsWordChar(text[p])
        after == p + 1 <= Len(text) /\ IsWordChar(text[p + 1])
    IN  before # after

\* re.search(r'\b' + re.escape(word) + r'\b', all_text)
WholeWordSearch(word, text) ==
    \E start \in 0..(Len(text) - Len(word)) :
        /\ SubSeq(text, start + 1, start + Len(word)) = word
        /\ WordBoundary(text, start)
        /\ WordBoundary(text, start + Len(word))

\* text[:n]
Prefix(text, n) == SubSeq(text, 1, IF Len(text) < n THEN Len(text) ELSE n)

\* a['title'].lower() + ' ' + a.get('content', '').lower()[:200]
ArticleBlob(a) ==
    lower(a.title) \o <<" ">> \o Prefix(lower(a.content), ContentPrefix)

\* ' '.join([...])
RECURSIVE JoinBlobs(_)
JoinBlobs(members) ==
    IF members = <<>> THEN <<>>
    ELSE IF Len(members) = 1 THEN ArticleBlob(Head(members))
    ELSE ArticleBlob(Head(members)) \o <<" ">> \o JoinBlobs(Tail(members))

\* Variant: the loop has no break and the last match is the reason.
RECURSIVE LastBlacklistMatch(_, _)
LastBlacklistMatch(words, all_text) ==
    IF words = <<>> THEN <<>>
    ELSE LET rest == LastBlacklistMatch(Tail(words), all_text)
         IN  IF rest # <<>> THEN rest
             ELSE IF WholeWordSearch(Head(words), all_text) THEN <<Head(words)>>
             ELSE <<>>

\* Lines 200-206: blacklist_matches, empty or the first word that matches.
RECURSIVE FirstBlacklistMatch(_, _)
FirstBlacklistMatch(words, all_text) ==
    IF words = <<>> THEN <<>>
    ELSE IF WholeWordSearch(Head(words), all_text) THEN <<Head(words)>>
    ELSE FirstBlacklistMatch(Tail(words), all_text)

\* Variant: a relevance keyword counts only as a whole word.
RECURSIVE RelevanceMatchesWholeWord(_, _)
RelevanceMatchesWholeWord(words, all_text) ==
    IF words = <<>> THEN 0
    ELSE (IF WholeWordSearch(Head(words), all_text) THEN 1 ELSE 0)
         + RelevanceMatchesWholeWord(Tail(words), all_text)

\* sum(1 for word in relevance if word in all_text)
RECURSIVE RelevanceMatches(_, _)
RelevanceMatches(words, all_text) ==
    IF words = <<>> THEN 0
    ELSE (IF In(Head(words), all_text) THEN 1 ELSE 0)
         + RelevanceMatches(Tail(words), all_text)

\* Lines 190-224: the loop over the clusters.
RECURSIVE ScoreLoop(_, _, _, _)
ScoreLoop(arts, cls, scores, rejected) ==
    IF cls = <<>> THEN [cluster_scores |-> scores, rejected_clusters |-> rejected]
    ELSE LET cluster_id == Head(cls).id
             all_text == JoinBlobs(Members(arts, Head(cls).article_indices))
             blacklist_matches == FirstBlacklistMatch(blacklist, all_text)
         IN  IF blacklist_matches # <<>>
             THEN ScoreLoop(arts, Tail(cls),
                      Append(scores, [id |-> cluster_id, score |-> 0]),
                      Append(rejected, [id |-> cluster_id,
                                        reason |-> blacklist_matches[1]]))
             ELSE ScoreLoop(arts, Tail(cls),
                      Append(scores, [id |-> cluster_id,
                          score |-> 100 + RelevanceMatches(relevance, all_text) * 10]),
                      rejected)

score_clusters(arts, cls) == ScoreLoop(arts, cls, <<>>, <<>>)

InitScore ==
    /\ pc = "clustered"
    /\ raised = ""
    /\ \E n \in 1..MaxScoreBatch :
          /\ \E t \in [1..n -> ScoreTitles], c \in [1..n -> ScoreContents] :
                emb_articles = [i \in 1..n |-> EmbArticle(i, t[i], c[i], Absent)]
          /\ \E lbl \in [1..n -> ClusterLabels] :
                /\ IsLabelling(lbl)
                /\ clusters = GroupByLabel(lbl)
    /\ cluster_scores = <<>>
    /\ rejected_clusters = <<>>
    /\ filtered_articles = <<>>
    /\ articles = <<>>
    /\ historical_urls = {}
    /\ AggIdle /\ CrossIdle /\ RerunIdle /\ HistIdle /\ ScanIdle /\ KwIdle
    /\ DbIdle /\ PassIdle /\ RemoteIdle /\ CacheIdle /\ DiscordIdle
    /\ MainIdle /\ StatIdle

\* main, line 347: cluster_scores = score_clusters(articles, clusters, labels)
ScoreClusters ==
    /\ pc = "clustered"
    /\ LET result == score_clusters(emb_articles, clusters)
       IN  /\ cluster_scores' = result.cluster_scores
           /\ rejected_clusters' = result.rejected_clusters
    /\ pc' = "scored"
    /\ UNCHANGED <<raised, articles, aggVars, crossVars, rerunVars, histVars,
                   scanVars, kwVars, dbVars, passVars, remoteVars, cacheVars,
                   discordVars, mainVars, statVars, emb_articles, clusters,
                   filtered_articles>>

NextScore == ScoreClusters \/ FilterByScore

SpecScore == InitScore /\ [][NextScore]_vars

----------------------------------------------------------------------------
(* stage3_embed_filter.py: cluster_articles(articles, embeddings)          *)
(*                                                                         *)
(* DBSCAN(eps=0.35, min_samples=1, metric='cosine').fit(embeddings) is the *)
(* library's algorithm: the samples within eps of a sample are its         *)
(* neighbourhood (the sample itself included), a sample with at least      *)
(* min_samples neighbours is a core sample, and a cluster grows from an    *)
(* unlabelled core sample through the neighbourhoods of the core samples   *)
(* it reaches.  A sample reached by no cluster keeps the label -1 (noise). *)
(* A vector is a pair of integers; eps is counted in hundredths.           *)

MaxVectors == 3
eps == 35
min_samples == 1
Noise == -1
Vectors == { <<1, 0>>, <<2, 1>>, <<1, 1>>, <<0, 1>>, <<-1, -1>> }

Dot(a, b) == a[1] * b[1] + a[2] * b[2]

\* cosine distance(a, b) <= eps, that is cos(a, b) >= 1 - eps
WithinEps(a, b) ==
    /\ Dot(a, b) >= 0
    /\ (100 * Dot(a, b)) * (100 * Dot(a, b)) >=
          (100 - eps) * (100 - eps) * Dot(a, a) * Dot(b, b)

\* The neighbourhood of sample i.
Neighborhood(X, i) == { j \in 1..Len(X) : WithinEps(X[i], X[j]) }

\* Variant: min_samples = 2.
IsCoreOfTwo(X, i) == Cardinality(Neighborhood(X, i)) >= 2

IsCore(X, i) == Cardinality(Neighborhood(X, i)) >= min_samples

\* The unlabelled neighbours of sample i, in the order of the visit.
Unlabelled(X, order, lbl, i) ==
    LET open(v) == v \in Neighborhood(X, i) /\ lbl[v] = Noise
    IN  SelectSeq(order, open)

\* Variant: the neighbours of the first sample of a cluster are labelled,
\* their own neighbours are not followed.
RECURSIVE ExpandOneHop(_, _, _, _, _)
ExpandOneHop(X, order, stack, lbl, label_num) ==
    IF stack = <<>> THEN lbl
    ELSE LET i == Head(stack)
             hop == Unlabelled(X, order, lbl, i)
         IN  [v \in 1..Len(X) |->
                IF v = i \/ v \in Range(hop) THEN label_num ELSE lbl[v]]

\* The depth-first growth of one cluster from the samples on the stack.
RECURSIVE Expand(_, _, _, _, _)
Expand(X, order, stack, lbl, label_num) ==
    IF stack = <<>> THEN lbl
    ELSE LET i == Head(stack)
         IN  IF lbl[i] # Noise
             THEN Expand(X, order, Tail(stack), lbl, label_num)
             ELSE LET labelled == [lbl EXCEPT ![i] = label_num]
                  IN  Expand(X, order,
                             (IF IsCore(X, i)
                              THEN Unlabelled(X, order, labelled, i)
                              ELSE <<>>) \o Tail(stack),
                             labelled, label_num)

\* The loop over the samples: each unlabelled core sample starts a cluster.
RECURSIVE SeedLoop(_, _, _, _, _)
SeedLoop(X, order, k, lbl, label_num) ==
    IF k > Len(order) THEN lbl
    ELSE LET i == order[k]
         IN  IF lbl[i] # Noise \/ ~IsCore(X, i)
             THEN SeedLoop(X, order, k + 1, lbl, label_num)
             ELSE SeedLoop(X, order, k + 1,
                           Expand(X, order, <<i>>, lbl, label_num),
                           label_num + 1)

\* clustering.labels_ when the samples are visited in the given order.
DBSCAN(X, order) == SeedLoop(X, order, 1, [i \in 1..Len(X) |-> Noise], 0)

\* The samples in index order, as the library visits them.
IndexOrder(X) == [i \in 1..Len(X) |-> i]
\* Any order of the samples.
IsOrder(order, X) ==
    /\ order \in [1..Len(X) -> 1..Len(X)]
    /\ \A i, j \in 1..Len(X) : i # j => order[i] # order[j]

InitDb ==
    /\ pc = "embedded"
    /\ raised = ""
    /\ \E n \in 1..MaxVectors : embeddings \in [1..n -> Vectors]
    /\ labels = <<>> /\ rerun_labels = <<>> /\ rerun_clusters = <<>>
    /\ articles = <<>>
    /\ historical_urls = {}
    /\ AggIdle /\ CrossIdle /\ RerunIdle /\ HistIdle /\ ScanIdle /\ KwIdle
    /\ EmbIdle /\ PassIdle /\ RemoteIdle /\ CacheIdle /\ DiscordIdle
    /\ MainIdle /\ StatIdle

\* Lines 92-98: the clustering and the grouping of the indices by label.
ClusterArticles ==
    /\ pc = "embedded"
    /\ labels' = DBSCAN(embeddings, IndexOrder(embeddings))
    /\ clusters' = GroupByLabel(labels')
    /\ pc' = "clustered"
    /\ UNCHANGED <<raised, articles, aggVars, crossVars, rerunVars, histVars,
                   scanVars, kwVars, emb_articles, cluster_scores,
                   rejected_clusters, filtered_articles, embeddings,
                   rerun_labels, rerun_clusters, passVars, remoteVars,
                   cacheVars, discordVars, mainVars, statVars>>

\* A second run on the same vectors.  The order in which the library visits
\* samples and neighbours is not part of its contract: the run takes any.
ClusterArticlesAgain ==
    /\ pc = "clustered"
    /\ \E order \in [1..Len(embeddings) -> 1..Len(embeddings)] :
          /\ IsOrder(order, embeddings)
          /\ rerun_labels' = DBSCAN(embeddings, order)
    /\ rerun_clusters' = GroupByLabel(rerun_labels')
    /\ pc' = "reclustered"
    /\ UNCHANGED <<raised, articles, aggVars, crossVars, rerunVars, histVars,
                   scanVars, kwVars, embVars, passVars, remoteVars, cacheVars,
                   discordVars, mainVars, statVars, embeddings, labels>>

NextDb == ClusterArticles \/ ClusterArticlesAgain

SpecDb == InitDb /\ [][NextDb]_vars

----------------------------------------------------------------------------
(* The filtering pass as its callers run it: the /filter endpoint of       *)
(* src/services/embedding_service.py, main of stage3_embed_filter.py and   *)
(* cluster_and_filter_with_embeddings of src/services/filter_logic.py      *)

Modes == {"keyword", "embedding", "benchmark", "other"}
PassBlacklist == << <<"b">>, <<"l", "b">> >>

TopReasons == 10

DigitChar(d) ==
    CASE d = 0 -> "0" [] d = 1 -> "1" [] d = 2 -> "2" [] d = 3 -> "3"
      [] d = 4 -> "4" [] d = 5 -> "5" [] d = 6 -> "6" [] d = 7 -> "7"
      [] d = 8 -> "8" [] OTHER -> "9"

\* The decimal digits of a natural number.
RECURSIVE Digits(_)
Digits(k) ==
    IF k < 10 THEN <<DigitChar(k)>>
    ELSE Digits(k \div 10) \o <<DigitChar(k % 10)>>

\* A float as the fraction num / den it stands for (exact for the counts of
\* the model).
Float(num, den) == [num |-> num, den |-> den]

\* The number of tenths nearest to the value, ties to the even one.
Tenths(x) ==
    LET q == (x.num * 10) \div x.den
        rest == (x.num * 10) % x.den
    IN  IF 2 * rest > x.den THEN q + 1
        ELSE IF 2 * rest < x.den THEN q
        ELSE IF q % 2 = 0 THEN q ELSE q + 1

\* f"{x:.1f}%"
FormatPercent(x) ==
    Digits(Tenths(x) \div 10) \o <<".">> \o <<DigitChar(Tenths(x) % 10)>> \o <<"%">>

\* f"{len(blacklisted_articles) / len(articles) * 100:.1f}%" if articles else "0%"
reduction_rate(blacklisted_count, input_count) ==
    IF input_count # 0 THEN FormatPercent(Float(blacklisted_count * 100, input_count))
    ELSE <<"0", "%">>

\* Variant: the sort in ascending order of the counts.
RECURSIVE CountInsertAscending(_, _)
CountInsertAscending(a, s) ==
    IF s = <<>> THEN <<a>>
    ELSE IF Head(s).count <= a.count
            THEN <<Head(s)>> \o CountInsertAscending(a, Tail(s))
         ELSE <<a>> \o s

\* sorted(items, key=lambda x: x[1], reverse=True): stable, equal counts stay
\* in the order of the dict.
RECURSIVE CountInsertDescending(_, _)
CountInsertDescending(a, s) ==
    IF s = <<>> THEN <<a>>
    ELSE IF Head(s).count >= a.count
            THEN <<Head(s)>> \o CountInsertDescending(a, Tail(s))
         ELSE <<a>> \o s

RECURSIVE SortByCount(_, _)
SortByCount(items, acc) ==
    IF items = <<>> THEN acc
    ELSE SortByCount(Tail(items), CountInsertDescending(Head(items), acc))

\* dict(sorted(blacklist_stats.items(), key=lambda x: x[1], reverse=True)[:10])
top_blacklist_reasons(stats) == Prefix(SortByCount(stats, <<>>), TopReasons)

\* filter_logic.py, lines 159-165: the stats dict built from the three
\* results of filter_by_blacklist.
keyword_stats(arts, result) ==
    [input_count |-> Len(arts),
     filtered_count |-> Len(result.kept_articles),
     blacklisted_count |-> Len(result.blacklisted_articles),
     reduction_rate |-> reduction_rate(Len(result.blacklisted_articles), Len(arts)),
     top_blacklist_reasons |-> top_blacklist_reasons(result.blacklist_stats)]

\* filter_logic.py, lines 146-167.
simple_filter(arts) ==
    LET result == filter_by_blacklist(arts)
    IN  [filtered_articles |-> result.kept_articles,
         stats |-> keyword_stats(arts, result)]

\* filter_logic.py, lines 117-143: the model is not used, the result is the
\* one of filter_by_blacklist, the stats dict is built as in simple_filter
\* (lines 135-141).
cluster_and_filter_with_embeddings(arts, model) ==
    LET result == filter_by_blacklist(arts)
    IN  [filtered_articles |-> result.kept_articles,
         stats |-> keyword_stats(arts, result)]

\* filter_logic.py, lines 223-283.  The similarities come from the model:
\* similar is the set of positions whose best category similarity exceeds
\* the threshold.  An empty batch returns at lines 240-241 with the three
\* counts only.  (The stats of a non-empty batch also carry the threshold
\* and the hits per category, which are the model's.)
embedding_based_blacklist_filter(arts, similar) ==
    LET keep(a) == a.id \notin similar
        blocked(a) == a.id \in similar
    IN  IF arts = <<>>
        THEN [filtered_articles |-> <<>>,
              stats |-> [input_count |-> 0, filtered_count |-> 0,
                         blacklisted_count |-> 0]]
        ELSE [filtered_articles |-> SelectSeq(arts, keep),
              stats |-> [input_count |-> Len(arts),
                         filtered_count |-> Len(SelectSeq(arts, keep)),
                         blacklisted_count |-> Len(SelectSeq(arts, blocked)),
                         reduction_rate |->
                             reduction_rate(Len(SelectSeq(arts, blocked)), Len(arts))]]

\* embedding_service.py, lines 33-45: the model is loaded once; a failed
\* load leaves None.
load_model ==
    IF MODEL # "None" THEN MODEL
    ELSE IF embedder_available THEN "loaded" ELSE "None"

InitPass ==
    /\ pc = "start"
    /\ raised = ""
    /\ embedder_available \in BOOLEAN
    /\ sklearn_available \in BOOLEAN
    /\ MODEL = "None"
    /\ pass_entry = "" /\ pass_mode = "" /\ pass_status = ""
    /\ pass_output = <<>> /\ pass_saved = FALSE
    /\ BLACKLIST_KEYWORDS = PassBlacklist
    /\ kw_articles = <<>> /\ kept_articles = <<>>
    /\ blacklisted_articles = <<>> /\ blacklist_stats = <<>>
    /\ articles = <<>>
    /\ historical_urls = {}
    /\ AggIdle /\ CrossIdle /\ RerunIdle /\ HistIdle /\ ScanIdle /\ EmbIdle
    /\ DbIdle /\ RemoteIdle /\ CacheIdle /\ DiscordIdle /\ MainIdle /\ StatIdle

passFrame == <<articles, aggVars, crossVars, rerunVars, histVars, scanVars,
               remoteVars, cacheVars, discordVars, mainVars, statVars,
               embedder_available, sklearn_available, BLACKLIST_KEYWORDS,
               kept_articles, blacklisted_articles, blacklist_stats>>

\* embedding_service.py, lines 86-138: POST /filter.
ServiceFilter ==
    /\ pc = "start"
    /\ \E mode \in Modes, n \in 0..MaxKwBatch :
        \E t \in [1..n -> Titles], c \in [1..n -> Contents], similar \in SUBSET (1..n) :
          LET batch == [i \in 1..n |-> KwArticle(i, t[i], c[i])]
              loads == batch # <<>> /\ mode \in {"embedding", "benchmark"}
              model == load_model
          IN  /\ kw_articles' = batch
              /\ pass_mode' = mode
              /\ MODEL' = IF loads THEN model ELSE MODEL
              /\ IF batch = <<>> \/ mode = "other"
                 THEN pass_status' = "HTTP 400" /\ pass_output' = <<>>
                 ELSE IF mode = "keyword"
                 THEN /\ pass_status' = "HTTP 200"
                      /\ pass_output' = simple_filter(batch).filtered_articles
                 ELSE IF model = "None"
                 THEN pass_status' = "HTTP 500" /\ pass_output' = <<>>
                 ELSE /\ pass_status' = "HTTP 200"
                      /\ pass_output' =
                            embedding_based_blacklist_filter(batch, similar).filtered_articles
    /\ pass_entry' = "filter_articles"
    /\ pc' = "ended"
    /\ UNCHANGED <<raised, pass_saved, embVars, dbVars, passFrame>>

\* stage3_embed_filter.py, lines 326-355: main.  Each early return leaves
\* the process with exit status 0 and writes no file.
EmbedMain ==
    /\ pc = "start"
    /\ \E n \in 0..MaxScoreBatch :
        \E t \in [1..n -> ScoreTitles], X \in [1..n -> Vectors] :
          LET arts == [i \in 1..n |-> EmbArticle(i, t[i], <<>>, Absent)]
              lbl == DBSCAN(X, IndexOrder(X))
              cls == GroupByLabel(lbl)
              scored == score_clusters(arts, cls)
              result == filter_by_score(arts, cls, scored.cluster_scores)
          IN  /\ emb_articles' = arts
              /\ IF arts = <<>> \/ ~embedder_available
                 THEN /\ pass_status' = "exit 0" /\ pass_saved' = FALSE
                      /\ pass_output' = <<>> /\ raised' = ""
                      /\ UNCHANGED <<clusters, cluster_scores,
                                     rejected_clusters,
                                     filtered_articles, embeddings, labels>>
                 ELSE IF ~sklearn_available
                 THEN /\ pass_status' = "exit 0" /\ pass_saved' = FALSE
                      /\ pass_output' = <<>> /\ raised' = ""
                      /\ embeddings' = X
                      /\ UNCHANGED <<clusters, cluster_scores,
                                     rejected_clusters,
                                     filtered_articles, labels>>
                 ELSE /\ embeddings' = X
                      /\ labels' = lbl
                      /\ clusters' = cls
                      /\ cluster_scores' = scored.cluster_scores
                      /\ rejected_clusters' = scored.rejected_clusters
                      /\ filtered_articles' = result.kept_articles
                      /\ raised' = result.raises
                      /\ pass_saved' = (result.raises = "")
                      /\ pass_output' = result.kept_articles
                      /\ pass_status' = IF result.raises = "" THEN "exit 0"
                                                              ELSE "exit 1"
    /\ pass_entry' = "main"
    /\ pass_mode' = "embedding"
    /\ pc' = "ended"
    /\ UNCHANGED <<MODEL, kw_articles, rerun_labels, rerun_clusters, passFrame>>

\* filter_logic.py, lines 117-143, called with the model load_model gave.
ClusterAndFilterWithEmbeddings ==
    /\ pc = "start"
    /\ \E n \in 0..MaxKwBatch :
        \E t \in [1..n -> Titles], c \in [1..n -> Contents] :
          LET batch == [i \in 1..n |-> KwArticle(i, t[i], c[i])]
          IN  /\ kw_articles' = batch
              /\ pass_output' =
                    cluster_and_filter_with_embeddings(batch, load_model).filtered_articles
    /\ MODEL' = load_model
    /\ pass_status' = "returned"
    /\ pass_entry' = "cluster_and_filter_with_embeddings"
    /\ pass_mode' = "embedding"
    /\ pc' = "ended"
    /\ UNCHANGED <<raised, pass_saved, embVars, dbVars, passFrame>>

NextPass == ServiceFilter \/ EmbedMain \/ ClusterAndFilterWithEmbeddings

SpecPass == InitPass /\ [][NextPass]_vars

----------------------------------------------------------------------------
(* The stats dicts: simple_filter, cluster_and_filter_with_embeddings and  *)
(* embedding_based_blacklist_filter of filter_logic.py, and main and        *)
(* save_deduplicated of stage2_5_deduplicate.py                             *)

MaxReasons == 11
MaxKept == 1
CountValues == {1, 2}
ReasonAlphabet == <<"a", "b", "l", "x">>

\* The i-th of sixteen two-letter keywords, none part of another.
Reason(i) ==
    <<ReasonAlphabet[((i - 1) \div 4) + 1], ReasonAlphabet[((i - 1) % 4) + 1]>>

RECURSIVE Repeat(_, _)
Repeat(x, times) == IF times = 0 THEN <<>> ELSE <<x>> \o Repeat(x, times - 1)

\* Titles of a batch: counts[i] items that hold the i-th keyword, then kept
\* items that hold none.
RECURSIVE ReasonTitles(_, _, _)
ReasonTitles(counts, i, kept) ==
    IF i > Len(counts) THEN Repeat(<<"-">>, kept)
    ELSE Repeat(Reason(i), counts[i]) \o ReasonTitles(counts, i + 1, kept)

ReasonBatch(counts, kept) ==
    LET titles == ReasonTitles(counts, 1, kept)
    IN  [i \in 1..Len(titles) |-> KwArticle(i, titles[i], <<>>)]

\* stage2_5_deduplicate.py, line 168.
dedup_rate(duplicate_count, input_count) ==
    IF input_count > 0 THEN Float(duplicate_count * 100, input_count)
    ELSE Float(0, 1)

\* stage2_5_deduplicate.py, lines 171-177, with the rate as save_deduplicated
\* writes it (line 109).
dedup_stats(input_count, new_count, duplicate_count, checked) ==
    [total_input |-> input_count,
     new_articles |-> new_count,
     duplicates_removed |-> duplicate_count,
     deduplication_rate |-> FormatPercent(dedup_rate(duplicate_count, input_count)),
     historical_files_checked |-> checked]

InitStats ==
    /\ pc = "start"
    /\ raised = ""
    /\ BLACKLIST_KEYWORDS = [i \in 1..MaxReasons |-> Reason(i)]
    /\ kw_articles = <<>> /\ kept_articles = <<>>
    /\ blacklisted_articles = <<>> /\ blacklist_stats = <<>>
    /\ articles = <<>>
    /\ historical_urls = {}
    /\ StatIdle
    /\ AggIdle /\ CrossIdle /\ RerunIdle /\ HistIdle /\ ScanIdle /\ EmbIdle
    /\ DbIdle /\ PassIdle /\ RemoteIdle /\ CacheIdle /\ DiscordIdle /\ MainIdle

statFrame == <<raised, aggVars, rerunVars, histVars, scanVars, embVars, dbVars,
               passVars, remoteVars, cacheVars, discordVars, mainVars,
               BLACKLIST_KEYWORDS>>

\* filter_logic.py, lines 146-167: simple_filter, with its local results.
SimpleFilter ==
    /\ pc = "start"
    /\ \E n \in 0..MaxReasons, kept \in 0..MaxKept :
        \E counts \in [1..n -> CountValues] :
          \E batch \in {ReasonBatch(counts, kept)} :
            \E result \in {filter_by_blacklist(batch)} :
              /\ kw_articles' = batch
              /\ kept_articles' = result.kept_articles
              /\ blacklisted_articles' = result.blacklisted_articles
              /\ blacklist_stats' = result.blacklist_stats
              /\ total_input' = Len(batch)
              /\ rejected_count' = Len(result.blacklisted_articles)
              /\ filter_stats' = keyword_stats(batch, result)
    /\ stats_entry' = "simple_filter"
    /\ pc' = "reported"
    /\ UNCHANGED <<articles, crossVars, statFrame>>

\* filter_logic.py, lines 117-143.
ClusterAndFilterStats ==
    /\ pc = "start"
    /\ \E n \in 0..MaxKwBatch, kept \in 0..MaxKept :
        \E counts \in [1..n -> CountValues] :
          \E batch \in {ReasonBatch(counts, kept)} :
            \E result \in {filter_by_blacklist(batch)} :
              /\ kw_articles' = batch
              /\ kept_articles' = result.kept_articles
              /\ blacklisted_articles' = result.blacklisted_articles
              /\ blacklist_stats' = result.blacklist_stats
              /\ total_input' = Len(batch)
              /\ rejected_count' = Len(result.blacklisted_articles)
              /\ filter_stats' = keyword_stats(batch, result)
    /\ stats_entry' = "cluster_and_filter_with_embeddings"
    /\ pc' = "reported"
    /\ UNCHANGED <<articles, crossVars, statFrame>>

\* filter_logic.py, lines 223-283.
EmbeddingFilterStats ==
    /\ pc = "start"
    /\ \E n \in 0..MaxKwBatch :
        \E t \in [1..n -> Titles], c \in [1..n -> Contents], similar \in SUBSET (1..n) :
          LET batch == [i \in 1..n |-> KwArticle(i, t[i], c[i])]
              result == embedding_based_blacklist_filter(batch, similar)
          IN  /\ kw_articles' = batch
              /\ kept_articles' = result.filtered_articles
              /\ total_input' = Len(batch)
              /\ rejected_count' = Cardinality(similar)
              /\ filter_stats' = result.stats
    /\ stats_entry' = "embedding_based_blacklist_filter"
    /\ pc' = "reported"
    /\ UNCHANGED <<articles, crossVars, blacklisted_articles, blacklist_stats,
                   statFrame>>

\* stage2_5_deduplicate.py, lines 164-181 and 100-113.
DedupStats ==
    /\ pc = "start"
    /\ \E k \in 0..MaxBatch, urls \in SUBSET (Links \ {""}) :
        \E l \in [1..k -> Links] :
          LET batch == [i \in 1..k |-> Article(i, l[i], <<"t1", "s1">>, NoPublished)]
              result == deduplicate_articles(batch, urls)
          IN  /\ articles' = batch
              /\ historical_urls' = urls
              /\ new_articles' = result[1]
              /\ duplicate_articles' = result[2]
              /\ total_input' = Len(batch)
              /\ rejected_count' = Len(result[2])
              /\ filter_stats' = dedup_stats(Len(batch), Len(result[1]),
                                             Len(result[2]), Len(recent_files))
    /\ stats_entry' = "main"
    /\ pc' = "reported"
    /\ UNCHANGED <<kw_articles, kept_articles, blacklisted_articles,
                   blacklist_stats, statFrame>>

NextStats == SimpleFilter \/ ClusterAndFilterStats \/ EmbeddingFilterStats \/ DedupStats

SpecStats == InitStats /\ [][NextStats]_vars

----------------------------------------------------------------------------
(* stage2_5_deduplicate.py: main                                            *)

\* Path(__file__) is absolute or relative as the interpreter sets it;
\* AGGREGATED_DIR (lines 22-23) is built from it and has the same form.
PathForms == {"absolute", "relative"}

\* AGGREGATED_DIR / name, as glob yields it.
AggregatedPath(name) == [form |-> module_file, dir |-> "aggregated", name |-> name]

\* File names of the directory: two batches of today, one dated before the
\* window, one without a date.
MainFileNames == {3 * Today, 3 * Today + 1, 3 * (Today - LOOKBACK_DAYS - 1),
                  3 * Today + 2}

\* Path(sys.argv[1]): a file of the aggregated directory or of another one,
\* written as an absolute or as a relative path.
ArgPaths == [form : PathForms, dir : {"aggregated", "elsewhere"}, name : MainFileNames]

FileBatches == { <<Article(1, "u1", <<"t1", "s1">>, NoPublished)>>,
                 <<Article(1, "u2", <<"t2", "s1">>, NoPublished)>> }

\* input_path.exists(): relative paths are those of the directory the
\* script runs in; a file of another directory is there.
Exists(path) ==
    \/ path.dir = "aggregated" /\ path.name \in aggregated_dir
    \/ path.dir = "elsewhere"

\* The file behind a path, whatever the form of the path.
FileAt(path) ==
    IF path.dir = "aggregated" THEN dir_contents[path.name]
    ELSE [loads |-> TRUE, articles |-> <<Article(1, "u1", <<"t1", "s1">>, NoPublished)>>]

\* Variant: the comparison by the file a path names.
IsInputFileResolved(name) ==
    input_path.dir = "aggregated" /\ input_path.name = name

\* f != input_path, negated: pathlib compares the parts of the two paths.
IsInputFile(name) == AggregatedPath(name) = input_path

InitMain ==
    /\ pc = "main"
    /\ raised = ""
    /\ module_file \in PathForms
    /\ \E dir \in SUBSET MainFileNames :
          /\ Cardinality(dir) <= MaxFiles
          /\ aggregated_dir = dir
          /\ \E batches \in [dir -> FileBatches] :
                dir_contents = [n \in dir |-> [loads |-> TRUE, articles |-> batches[n]]]
    /\ \/ argv = <<>>
       \/ \E path \in ArgPaths : argv = <<path>>
    /\ input_path = NoPath
    /\ now = Midnight(Today) + 1
    /\ days = LOOKBACK_DAYS
    /\ cutoff_date = 0 /\ sorted_files = <<>> /\ scan_index = 0
    /\ recent_files = <<>>
    /\ articles = <<>>
    /\ historical_urls = {}
    /\ new_articles = <<>> /\ duplicate_articles = <<>>
    /\ AggIdle /\ RerunIdle /\ HistIdle /\ KwIdle /\ EmbIdle /\ DbIdle
    /\ PassIdle /\ RemoteIdle /\ CacheIdle /\ DiscordIdle /\ StatIdle

\* Lines 124-143: the input file is the argument or the latest aggregated
\* file; sys.exit(1) when there is none or it does not exist.
MainInput ==
    /\ pc = "main"
    /\ LET chosen == IF argv # <<>> THEN argv[1]
                     ELSE IF aggregated_dir # {}
                          THEN AggregatedPath(SortedReverse(aggregated_dir)[1])
                          ELSE NoPath
       IN  IF argv = <<>> /\ aggregated_dir = {}
           THEN /\ pc' = "exited" /\ raised' = "SystemExit"
                /\ UNCHANGED <<input_path, articles>>
           ELSE IF ~Exists(chosen)
           THEN /\ pc' = "exited" /\ raised' = "SystemExit"
                /\ input_path' = chosen
                /\ UNCHANGED articles
           ELSE /\ pc' = "start" /\ raised' = ""
                /\ input_path' = chosen
                /\ articles' = load_aggregated_file(FileAt(chosen)).articles
    /\ UNCHANGED <<aggVars, crossVars, rerunVars, histVars, scanVars, kwVars,
                   embVars, dbVars, passVars, remoteVars, cacheVars,
                   discordVars, statVars, module_file, argv, dir_contents>>

\* Line 149: recent_files = [f for f in recent_files if f != input_path]
MainExclude ==
    /\ pc = "scanned"
    /\ LET other(name) == ~IsInputFile(name)
       IN  recent_files' = SelectSeq(recent_files, other)
    /\ pc' = "history"
    /\ UNCHANGED <<raised, articles, aggVars, crossVars, rerunVars, histVars,
                   kwVars, embVars, dbVars, passVars, remoteVars, cacheVars,
                   discordVars, statVars, mainVars,
                   aggregated_dir, now, days, cutoff_date, sorted_files,
                   scan_index>>

\* Lines 159-181: the history links, the dedup of the batch, the stats.
MainDeduplicate ==
    /\ pc = "history"
    /\ LET history == [i \in 1..Len(recent_files) |-> dir_contents[recent_files[i]]]
           urls == extract_urls_from_history(history).urls
           result == deduplicate_articles(articles, urls)
       IN  /\ files' = history
           /\ historical_urls' = urls
           /\ new_articles' = result[1]
           /\ duplicate_articles' = result[2]
           /\ stats_entry' = "main"
           /\ total_input' = Len(articles)
           /\ rejected_count' = Len(result[2])
           /\ filter_stats' = dedup_stats(Len(articles), Len(result[1]),
                                          Len(result[2]), Len(recent_files))
    /\ pc' = "done"
    /\ UNCHANGED <<raised, articles, aggVars, rerunVars, scanVars, kwVars,
                   embVars, dbVars, passVars, remoteVars, cacheVars,
                   discordVars, mainVars>>

NextMain ==
    \/ MainInput
    \/ ScanStart \/ ScanAppend \/ ScanBreak \/ ScanSkip \/ ScanReturn
    \/ MainExclude
    \/ MainDeduplicate

SpecMain == InitMain /\ [][NextMain]_vars

----------------------------------------------------------------------------
(* src/pipeline/stage5_discord_webhook.py: split_content_by_sections and   *)
(* post_to_thread.  A string is the sequence of the lengths of its words   *)
(* (its pieces between single spaces), a text the sequence of its lines.    *)

DISCORD_MESSAGE_LIMIT == 2000
MaxLines == 3
HalfLimit == DISCORD_MESSAGE_LIMIT \div 2

RECURSIVE SumSeq(_)
SumSeq(s) == IF s = <<>> THEN 0 ELSE Head(s) + SumSeq(Tail(s))

\* len(line)
LineLen(words) == IF words = <<>> THEN 0 ELSE SumSeq(words) + Len(words) - 1

RECURSIVE SumLineLen(_)
SumLineLen(lines) ==
    IF lines = <<>> THEN 0 ELSE LineLen(Head(lines)) + SumLineLen(Tail(lines))

\* len('\n'.join(lines))
JoinLen(lines) == IF lines = <<>> THEN 0 ELSE SumLineLen(lines) + Len(lines) - 1

\* A section header '# NAME', or a line that is no header.
HeaderLine(name) ==
    [section |-> name,
     words |-> <<1, CASE name = "MUST-KNOW" -> 9
                      [] name = "INTERESSANT" -> 11
                      [] name = "NICE-TO-KNOW" -> 12
                      [] OTHER -> 9>>]
TextLine(words) == [section |-> "", words |-> words]

\* The lines of a digest: headers, an empty line, a short line, a line of
\* exactly the limit, a line one character over the limit made of two
\* words, and a single word longer than the limit.
DigestLines ==
    { HeaderLine("MUST-KNOW"), HeaderLine("INTERESSANT"), HeaderLine("DISCARDED"),
      TextLine(<<0>>), TextLine(<<5>>),
      TextLine(<<HalfLimit - 1, HalfLimit>>),
      TextLine(<<HalfLimit, HalfLimit>>),
      TextLine(<<DISCORD_MESSAGE_LIMIT + 1>>) }

\* Lines 127-138: the words of a long line are collected into pieces.
RECURSIVE WordLoop(_, _, _)
WordLoop(words, temp_line, pieces) ==
    IF words = <<>>
    THEN IF LineLen(temp_line) > 0 THEN Append(pieces, temp_line) ELSE pieces
    ELSE LET word == Head(words)
         IN  IF LineLen(temp_line) + word + 1 <= DISCORD_MESSAGE_LIMIT
             THEN WordLoop(Tail(words),
                           IF LineLen(temp_line) > 0 THEN Append(temp_line, word)
                           ELSE IF word > 0 THEN <<word>> ELSE <<>>,
                           pieces)
             ELSE WordLoop(Tail(words), <<word>>,
                           IF LineLen(temp_line) > 0 THEN Append(pieces, temp_line)
                           ELSE pieces)

\* Lines 64-75: the content from '# MUST-KNOW' to before '# DISCARDED'.
MainContent(lines) ==
    LET starts == { i \in 1..Len(lines) : lines[i].section = "MUST-KNOW" }
        start_idx == IF starts = {} THEN 1
                     ELSE CHOOSE i \in starts : \A j \in starts : i <= j
        ends == { i \in start_idx..Len(lines) : lines[i].section = "DISCARDED" }
        end_idx == IF ends = {} THEN Len(lines) + 1
                   ELSE CHOOSE i \in ends : \A j \in ends : i <= j
    IN  SubSeq(lines, start_idx, end_idx - 1)

Chunk(lines, section) == [lines |-> lines, section |-> section]

\* Lines 82-144: the loop over the lines.
RECURSIVE SplitLoop(_, _, _, _)
SplitLoop(lines, current_chunk, current_section, out) ==
    IF lines = <<>>
    THEN IF current_chunk # <<>> /\ JoinLen(current_chunk) > 0
         THEN Append(out, Chunk(current_chunk, current_section))
         ELSE out
    ELSE LET line == Head(lines)
             is_section == line.section # ""
             next_section == IF is_section THEN line.section ELSE current_section
             flushed == is_section /\ current_chunk # <<>>
             out1 == IF flushed /\ JoinLen(current_chunk) > 0
                     THEN Append(out, Chunk(current_chunk, current_section))
                     ELSE out
             chunk1 == IF flushed THEN <<>> ELSE current_chunk
             test_chunk == Append(chunk1, line.words)
             over == JoinLen(test_chunk) > DISCORD_MESSAGE_LIMIT
             out2 == IF over /\ chunk1 # <<>>
                     THEN Append(out1, Chunk(chunk1, next_section))
                     ELSE out1
             chunk2 == IF ~over THEN test_chunk
                       ELSE IF LineLen(line.words) > DISCORD_MESSAGE_LIMIT
                            THEN WordLoop(line.words, <<>>, <<>>)
                            ELSE <<line.words>>
         IN  SplitLoop(Tail(lines), chunk2, next_section, out2)

\* split_content_by_sections, for a text whose section headers are on lines
\* of their own (the loop of lines 50-60 changes nothing then).
split_content_by_sections(lines) ==
    SplitLoop(MainContent(lines), <<>>, "None", <<>>)

\* The number of zero-length words at the end of a line: its trailing spaces.
RECURSIVE TrailingSpaces(_)
TrailingSpaces(words) ==
    IF words = <<>> \/ words[Len(words)] # 0 THEN 0
    ELSE 1 + TrailingSpaces(SubSeq(words, 1, Len(words) - 1))

\* The number of whitespace characters at the end of '\n'.join(lines).
RECURSIVE TrailingWhitespace(_)
TrailingWhitespace(lines) ==
    IF lines = <<>> THEN 0
    ELSE LET last == lines[Len(lines)]
         IN  IF SumSeq(last) = 0
             THEN LineLen(last)
                    + (IF Len(lines) > 1
                       THEN 1 + TrailingWhitespace(SubSeq(lines, 1, Len(lines) - 1))
                       ELSE 0)
             ELSE TrailingSpaces(last)

\* len(chunk.rstrip())
RstripLen(lines) == JoinLen(lines) - TrailingWhitespace(lines)

\* Lines 234-240: the message of the i-th chunk.
Message(i, chunk) ==
    LET prefixed == i > 1 /\ chunk.section \in {"MUST-KNOW", "INTERESSANT"}
    IN  [prefixed |-> prefixed,
         length |-> (IF prefixed THEN 2 ELSE 0) + RstripLen(chunk.lines)]

InitDiscord ==
    /\ pc = "formatted"
    /\ raised = ""
    /\ \E n \in 0..MaxLines :
          \E lines \in [1..n -> DigestLines] : content = lines
    /\ chunks = <<>>
    /\ messages = <<>>
    /\ articles = <<>>
    /\ historical_urls = {}
    /\ AggIdle /\ CrossIdle /\ RerunIdle /\ HistIdle /\ ScanIdle /\ KwIdle
    /\ EmbIdle /\ DbIdle /\ PassIdle /\ RemoteIdle /\ CacheIdle /\ MainIdle
    /\ StatIdle

\* main, line 305: chunks = split_content_by_sections(content)
SplitContent ==
    /\ pc = "formatted"
    /\ chunks' = split_content_by_sections(content)
    /\ pc' = "split"
    /\ UNCHANGED <<raised, articles, aggVars, crossVars, rerunVars, histVars,
                   scanVars, kwVars, embVars, dbVars, passVars, remoteVars,
                   cacheVars, mainVars, statVars,
                   content, messages>>

\* main, line 318: post_to_thread builds one message for each chunk.
PostToThread ==
    /\ pc = "split"
    /\ messages' = [i \in 1..Len(chunks) |-> Message(i, chunks[i])]
    /\ pc' = "posted"
    /\ UNCHANGED <<raised, articles, aggVars, crossVars, rerunVars, histVars,
                   scanVars, kwVars, embVars, dbVars, passVars, remoteVars,
                   cacheVars, mainVars, statVars,
                   content, chunks>>

NextDiscord == SplitContent \/ PostToThread

SpecDiscord == InitDiscord /\ [][NextDiscord]_vars

----------------------------------------------------------------------------
(* src/services/filter_logic.py: get_blacklist_category_embeddings and the *)
(* module-level _CATEGORY_EMBEDDINGS_CACHE, called from several threads.    *)
(* A step of a caller is the check of the cache, one model.encode call, or  *)
(* the assignment of the cache; the function takes no lock.                 *)

MaxCallers == 3
MaxCalls == 2
NumCategories == 2

Callers == 1..MaxCallers
BLACKLIST_CATEGORIES == 1..NumCategories

\* A mapping is told from another by the call that created it; it holds the
\* embeddings of its categories.
NoMapping == [creator |-> 0, call |-> 0, categories |-> {}]
Mapping(t, n, cats) == [creator |-> t, call |-> n, categories |-> cats]

InitCache ==
    /\ pc = "serving"
    /\ raised = ""
    /\ CATEGORY_EMBEDDINGS_CACHE = NoMapping
    /\ callers = [t \in Callers |->
                    [at |-> "idle", call |-> 0,
                     category_embeddings |-> NoMapping, result |-> NoMapping]]
    /\ encode_calls = [c \in BLACKLIST_CATEGORIES |-> 0]
    /\ articles = <<>>
    /\ historical_urls = {}
    /\ AggIdle /\ CrossIdle /\ RerunIdle /\ HistIdle /\ ScanIdle /\ KwIdle
    /\ EmbIdle /\ DbIdle /\ PassIdle /\ RemoteIdle /\ DiscordIdle /\ MainIdle
    /\ StatIdle

cacheFrame ==
    UNCHANGED <<ctl, articles, aggVars, crossVars, rerunVars, histVars,
                scanVars,
                kwVars, embVars, dbVars, passVars, remoteVars, discordVars,
                mainVars, statVars>>

\* Lines 199-205: the cache is returned when it is set; otherwise the caller
\* starts an empty mapping of its own.
CallGet(t) ==
    /\ callers[t].at \in {"idle", "returned"}
    /\ callers[t].call < MaxCalls
    /\ IF CATEGORY_EMBEDDINGS_CACHE # NoMapping
       THEN callers' = [callers EXCEPT ![t] =
                          [at |-> "returned", call |-> @.call + 1,
                           category_embeddings |-> NoMapping,
                           result |-> CATEGORY_EMBEDDINGS_CACHE]]
       ELSE callers' = [callers EXCEPT ![t] =
                          [at |-> "encoding", call |-> @.call + 1,
                           category_embeddings |-> Mapping(t, @.call + 1, {}),
                           result |-> NoMapping]]
    /\ UNCHANGED <<CATEGORY_EMBEDDINGS_CACHE, encode_calls>>
    /\ cacheFrame

\* Lines 207-210: one turn of the loop, one model.encode call.
EncodeCategory(t) ==
    /\ callers[t].at = "encoding"
    /\ callers[t].category_embeddings.categories # BLACKLIST_CATEGORIES
    /\ LET todo == BLACKLIST_CATEGORIES \ callers[t].category_embeddings.categories
           category == CHOOSE c \in todo : \A d \in todo : c <= d
       IN  /\ encode_calls' = [encode_calls EXCEPT ![category] = @ + 1]
           /\ callers' = [callers EXCEPT ![t].category_embeddings.categories =
                               @ \cup {category}]
    /\ UNCHANGED CATEGORY_EMBEDDINGS_CACHE
    /\ cacheFrame

\* Lines 212-215: the mapping is assigned to the cache and returned.
StoreCache(t) ==
    /\ callers[t].at = "encoding"
    /\ callers[t].category_embeddings.categories = BLACKLIST_CATEGORIES
    /\ CATEGORY_EMBEDDINGS_CACHE' = callers[t].category_embeddings
    /\ callers' = [callers EXCEPT ![t].at = "returned",
                                  ![t].result = callers[t].category_embeddings]
    /\ UNCHANGED encode_calls
    /\ cacheFrame

NextCache ==
    \E t \in Callers : CallGet(t) \/ EncodeCategory(t) \/ StoreCache(t)

SpecCache == InitCache /\ [][NextCache]_vars

----------------------------------------------------------------------------
(* src/pipeline/stage3_embed_filter_remote.py: filter_via_remote_service   *)
(* and the part of main around it.  The ssh/curl call is the environment:   *)
(* it times out, cannot be started, or completes with an exit status and an *)
(* output.                                                                  *)

MaxRemoteBatch == 2
RemoteArticles == {[link |-> "u1"], [link |-> "u2"]}
ReturnCodes == {0, 7, 255}
StatsKeys == {"input_count", "filtered_count", "blacklisted_count", "reduction_rate"}

\* The stats of a response, by the keys they hold; the stats nothing returned.
NoStats == [keys |-> {}]
ResponseStats == {[keys |-> StatsKeys], [keys |-> StatsKeys \ {"reduction_rate"}]}

\* The outputs of the call: text that is no JSON, JSON that is no object,
\* and objects with any of the fields filtered_articles, stats and detail;
\* filtered_articles is a prefix of the articles sent, the empty one included.
NoBody == [json |-> FALSE, object |-> FALSE, fields |-> {},
           filtered_articles |-> <<>>, stats |-> NoStats]
Bodies(arts) ==
    { NoBody, [NoBody EXCEPT !.json = TRUE] }
      \cup { [json |-> TRUE, object |-> TRUE, fields |-> f,
              filtered_articles |-> IF "filtered_articles" \in f
                                    THEN Prefix(arts, n) ELSE <<>>,
              stats |-> IF "stats" \in f THEN st ELSE NoStats] :
             f \in SUBSET {"filtered_articles", "stats", "detail"},
             n \in 0..Len(arts), st \in ResponseStats }

\* subprocess.run: TimeoutExpired, an OSError, or a completed process.
SubprocessResults(arts) ==
    { [kind |-> k, returncode |-> 0, stdout |-> NoBody] :
        k \in {"TimeoutExpired", "OSError"} }
      \cup { [kind |-> "completed", returncode |-> rc, stdout |-> b] :
             rc \in ReturnCodes, b \in Bodies(arts) }

\* Variant: response.get(key, default).
ResponseItemGet(body, key) == ""

\* response[key], lines 70-71: what it raises.
ResponseItem(body, key) ==
    IF ~body.object THEN "TypeError"
    ELSE IF key \notin body.fields THEN "KeyError"
    ELSE ""

\* Lines 55-73: what the body of the try statement raises.
TryBody(result) ==
    IF result.kind # "completed" THEN result.kind
    ELSE IF result.returncode # 0 THEN "Exception"
    ELSE IF ~result.stdout.json THEN "JSONDecodeError"
    ELSE IF ResponseItem(result.stdout, "filtered_articles") # ""
         THEN ResponseItem(result.stdout, "filtered_articles")
    ELSE ResponseItem(result.stdout, "stats")

\* Lines 75-80: the except clauses, each raising Exception with its message.
ExceptMessage(exc) ==
    CASE exc = "TimeoutExpired" -> "Remote service call timed out after 5 minutes"
      [] exc = "JSONDecodeError" -> "Failed to parse service response"
      [] OTHER -> "Remote service call failed"

NoReturn == [raised |-> "", message |-> "", returned |-> FALSE,
             filtered_articles |-> <<>>, stats |-> NoStats]

filter_via_remote_service(result) ==
    LET exc == TryBody(result)
    IN  IF exc = ""
        THEN [NoReturn EXCEPT !.returned = TRUE,
                              !.filtered_articles = result.stdout.filtered_articles,
                              !.stats = result.stdout.stats]
        ELSE [NoReturn EXCEPT !.raised = "Exception",
                              !.message = ExceptMessage(exc)]

InitRemote ==
    /\ pc = "loaded"
    /\ raised = ""
    /\ \E n \in 0..MaxRemoteBatch :
          \E arts \in [1..n -> RemoteArticles] : articles = arts
    /\ subprocess_result = <<>>
    /\ remote_return = NoReturn
    /\ exit_code = -1
    /\ historical_urls = {}
    /\ AggIdle /\ CrossIdle /\ RerunIdle /\ HistIdle /\ ScanIdle /\ KwIdle
    /\ EmbIdle /\ DbIdle /\ PassIdle /\ CacheIdle /\ DiscordIdle /\ MainIdle
    /\ StatIdle

remoteFrame ==
    UNCHANGED <<articles, aggVars, crossVars, rerunVars, histVars, scanVars,
                kwVars, embVars, dbVars, passVars, cacheVars, discordVars,
                mainVars, statVars>>

\* main, lines 132-138: the call, and sys.exit(1) when it raises.
RemoteFilter ==
    /\ pc = "loaded"
    /\ \E result \in SubprocessResults(articles) :
          LET ret == filter_via_remote_service(result)
          IN  /\ subprocess_result' = result
              /\ remote_return' = ret
              /\ IF ret.raised # ""
                 THEN /\ pc' = "exited" /\ raised' = "SystemExit"
                      /\ exit_code' = 1
                 ELSE /\ pc' = "filtered" /\ raised' = ""
                      /\ UNCHANGED exit_code
    /\ remoteFrame

\* main, lines 140-158: the statistics are printed and the articles saved;
\* a key the stats lack ends the run with KeyError.
RemoteSave ==
    /\ pc = "filtered"
    /\ IF StatsKeys \subseteq remote_return.stats.keys
       THEN /\ pc' = "saved" /\ raised' = "" /\ exit_code' = 0
       ELSE /\ pc' = "crashed" /\ raised' = "KeyError" /\ exit_code' = 1
    /\ UNCHANGED <<subprocess_result, remote_return>>
    /\ remoteFrame

NextRemote == RemoteFilter \/ RemoteSave

SpecRemote == InitRemote /\ [][NextRemote]_vars

----------------------------------------------------------------------------
(* Claims about cross-batch dedup (specification Spec) *)

InHistory(a) == a.link # "" /\ a.link \in historical_urls
NotInHistory(a) == ~InHistory(a)
Deduplicated == pc \in {"deduplicated", "rerun"}

\* C1: an article is in duplicate_articles iff its link is non-empty and in
\* historical_urls, every other article is in new_articles; both lists keep
\* the input order and together hold each article of the batch exactly once.
C1_DedupPartition ==
    Deduplicated =>
        /\ duplicate_articles = SelectSeq(articles, InHistory)
        /\ new_articles = SelectSeq(articles, NotInHistory)
        /\ Len(new_articles) + Len(duplicate_articles) = Len(articles)

\* C1 witness: a batch split into both lists, with a link-less article kept
\* although the history set holds the empty string.
C1_Witness ==
    /\ pc = "deduplicated"
    /\ Len(new_articles) >= 1
    /\ Len(duplicate_articles) >= 1
    /\ "" \in historical_urls
    /\ \E i \in 1..Len(new_articles) : new_articles[i].link = ""

SameLink(a, b) == a.link # "" /\ a.link = b.link
SameTitleSource(a, b) == TitleSourceKey(a) = TitleSourceKey(b)

C7_RerunIsNoOp ==
    pc = "rerun" => /\ rerun_new = new_articles
                    /\ rerun_duplicates = <<>>

\* C7 witness: a second run after a first run that kept two articles and
\* removed one.
C7_Witness ==
    /\ pc = "rerun"
    /\ Len(new_articles) >= 2
    /\ Len(duplicate_articles) >= 1

----------------------------------------------------------------------------
(* Claims about aggregation dedup and the pipeline (specification SpecAgg) *)

Aggregated == pc \in {"aggregated", "pipeline_deduplicated"}
Kept(a) == a.id \in Ids(unique_articles)
\* The article's link is non-empty and no article before it in s has it.
FreshLink(s, i) == s[i].link # "" /\ \A j \in 1..(i - 1) : s[j].link # s[i].link

\* C4 as stated: in no dedup step is an article with a non-empty link not seen
\* before (in history or earlier in the batch) removed.
C4_FreshLinkNeverRemoved ==
    /\ Aggregated =>
          LET processed == sorted_articles(articles)
          IN  \A i \in 1..Len(processed) :
                  FreshLink(processed, i) => Kept(processed[i])
    /\ pc = "pipeline_deduplicated" =>
          \A i \in 1..Len(unique_articles) :
              FreshLink(unique_articles, i) /\ NotInHistory(unique_articles[i])
                  => unique_articles[i].id \in Ids(new_articles)

\* C4 amended: (title, source) is tested after the link, for articles with a
\* link too.  Aggregation dedup removes an article with a fresh non-empty link
\* exactly when an article kept before it has the same (title, source);
\* cross-batch dedup never removes an article whose non-empty link is not in
\* the history.
C4_FreshLinkRemovedOnlyByTitleSource ==
    /\ Aggregated =>
          LET processed == sorted_articles(articles)
          IN  \A i \in 1..Len(processed) :
                  FreshLink(processed, i) =>
                      (~Kept(processed[i]) <=>
                          \E j \in 1..(i - 1) :
                              /\ Kept(processed[j])
                              /\ SameTitleSource(processed[j], processed[i]))
    /\ pc = "pipeline_deduplicated" =>
          \A i \in 1..Len(unique_articles) :
              unique_articles[i].link # "" /\ NotInHistory(unique_articles[i])
                  => unique_articles[i].id \in Ids(new_articles)

\* C4 witness: aggregation dedup has removed an article whose link is fresh.
C4_Witness ==
    /\ pc = "aggregated"
    /\ LET processed == sorted_articles(articles)
       IN  \E i \in 1..Len(processed) :
              FreshLink(processed, i) /\ ~Kept(processed[i])

NoIdentity(a) == a.link = "" /\ a.title = "" /\ a.source = ""

\* C5 as stated: an article with empty link, title and source is removed by no
\* dedup step.
C5_NoIdentityAlwaysKept ==
    /\ Aggregated =>
          \A i \in 1..Len(articles) : NoIdentity(articles[i]) => Kept(articles[i])
    /\ pc = "pipeline_deduplicated" =>
          \A i \in 1..Len(unique_articles) :
              NoIdentity(unique_articles[i])
                  => unique_articles[i].id \in Ids(new_articles)

\* Articles that are duplicates of one another: one non-empty link, or one
\* usable (title, source) pair.
LinkClass(l) == { a \in Range(articles) : a.link = l }
TitleSourceClass(ts) == { a \in Range(articles) : TitleSourceKey(a) = ts }
DuplicateClasses ==
    { LinkClass(l) : l \in Links \ {""} }
        \cup { TitleSourceClass(ts) : ts \in TitleSource \ {<<"", "">>} }
\* published with None below every timestamp (NoPublished is the least value).
MostRecentOf(a, class) == \A b \in class : b.published <= a.published

----------------------------------------------------------------------------
(* Claims about history construction (specification SpecHist) *)

ReadableFiles == { i \in 1..Len(files) : files[i].loads }
\* The (title, source) pairs and the non-empty links of the readable files.
HistoryPairs ==
    UNION { { TitleSourceKey(a) : a \in Range(files[i].articles) } : i \in ReadableFiles }
HistoryLinks == UNION { LinksOf(files[i].articles) : i \in ReadableFiles }
\* The link is empty or not in the history, the (title, source) is in it.
OnlyTitleSourceInHistory(a) == NotInHistory(a) /\ TitleSourceKey(a) \in HistoryPairs

C9_UnreadableFileSkipped ==
    /\ pc # "failed" /\ raised = ""
    /\ pc \in {"extracted", "history_deduplicated"} =>
          /\ historical_urls = HistoryLinks
          /\ ReadableFiles = {} => historical_urls = {}
    /\ pc = "history_deduplicated" /\ ReadableFiles = {} =>
          /\ new_articles = articles
          /\ duplicate_articles = <<>>

\* C9 witness: an unreadable file comes before a readable one whose link then
\* removes an article of the batch.
C9_Witness ==
    /\ pc = "history_deduplicated"
    /\ \E i, j \in 1..Len(files) :
          /\ i < j
          /\ ~files[i].loads
          /\ files[j].loads /\ LinksOf(files[j].articles) # {}
    /\ Len(duplicate_articles) >= 1

----------------------------------------------------------------------------
(* Claims about the history window scan (specification SpecScan) *)

WellFormed(name) == name % 3 # 2
RecordedDate(name) == Midnight(name \div 3)
WithinWindow(name) == WellFormed(name) /\ RecordedDate(name) >= now - timedelta(days)
OutsideWindow(name) == WellFormed(name) /\ RecordedDate(name) < now - timedelta(days)
\* Positions of the listing that hold a batch dated outside the window.
OutsidePositions == { i \in 1..Len(sorted_files) : OutsideWindow(sorted_files[i]) }
FirstOutside == CHOOSE i \in OutsidePositions : \A j \in OutsidePositions : i <= j

\* C8: get_recent_files visits the batches in descending name order; it
\* returns a batch only if the date in its name is not earlier than now minus
\* days; at the first batch dated outside the window the scan stops, and no
\* batch after it is consulted or returned; every batch with a well-formed
\* name dated within the window is returned.
C8_WindowScan ==
    pc \in {"scanning", "scanned"} =>
        /\ { sorted_files[i] : i \in 1..Len(sorted_files) } = aggregated_dir
        /\ \A i, j \in 1..Len(sorted_files) : i < j => sorted_files[i] > sorted_files[j]
        /\ \A i \in 1..Len(recent_files) : WithinWindow(recent_files[i])
        /\ \A i, j \in 1..Len(recent_files) : i < j => recent_files[i] > recent_files[j]
        /\ OutsidePositions # {} =>
              /\ scan_index <= FirstOutside
              /\ \A i \in 1..Len(recent_files) :
                    \A p \in FirstOutside..Len(sorted_files) :
                        recent_files[i] # sorted_files[p]
              /\ pc = "scanned" => scan_index = FirstOutside
        /\ pc = "scanned" =>
              \A name \in aggregated_dir :
                  WithinWindow(name) => name \in Range(recent_files)

\* C8 witness: the scan returned a batch dated exactly at the cutoff, skipped
\* nothing it should return, and stopped at a batch outside the window with
\* a further batch behind it.
C8_Witness ==
    /\ pc = "scanned"
    /\ \E i \in 1..Len(recent_files) :
          RecordedDate(recent_files[i]) = now - timedelta(days)
    /\ OutsidePositions # {}
    /\ scan_index < Len(sorted_files)

\* Batches whose name carries no parseable date.
Malformed(name) == ~WellFormed(name)

\* C24: a batch whose name carries no parseable date is skipped by
\* get_recent_files without stopping the scan: it is not returned, no
\* exception propagates, the scan goes on behind it, and every well-formed
\* batch dated within the window that sorts after it is returned.
C24_MalformedNameSkipped ==
    /\ pc \in {"scanning", "scanned"} =>
          /\ raised = ""
          /\ \A i \in 1..Len(recent_files) : ~Malformed(recent_files[i])
          /\ \A i \in 1..Len(sorted_files) :
                (Malformed(sorted_files[i]) /\ pc = "scanned") => scan_index # i
    /\ pc = "scanned" =>
          \A i, j \in 1..Len(sorted_files) :
              (i < j /\ Malformed(sorted_files[i]) /\ WithinWindow(sorted_files[j]))
                  => sorted_files[j] \in Range(recent_files)

\* C24 witness: the scan met a name without a date and returned a batch
\* that sorts after it.
C24_Witness ==
    /\ pc = "scanned"
    /\ \E i, j \in 1..Len(sorted_files) :
          /\ i < j
          /\ Malformed(sorted_files[i])
          /\ WithinWindow(sorted_files[j])
          /\ sorted_files[j] \in Range(recent_files)

----------------------------------------------------------------------------
(* Claims about the keyword filter (specification SpecKw) *)

Filtered == pc = "filtered"
Rejected(item) == item \in Range(blacklisted_articles)
Accepted(item) == item \in Range(kept_articles)
\* needle occurs in haystack at some position, character by character.
Occurs(needle, haystack) ==
    \E at \in 1..(Len(haystack) + 1) :
        \A j \in 1..Len(needle) :
            /\ at + j - 1 <= Len(haystack)
            /\ haystack[at + j - 1] = needle[j]
UpperChar(c) ==
    CASE c = "b" -> "B"
      [] c = "l" -> "L"
      [] OTHER -> c
Upper(text) == [i \in 1..Len(text) |-> UpperChar(text[i])]
TitleAndContent(item) == item.title \o <<" ">> \o item.content
KeywordMatches(keyword, item) ==
    Occurs(lower(keyword), lower(TitleAndContent(item)))

\* C10: an item is rejected by filter_by_blacklist if and only if some
\* blacklist keyword, lowercased, is a substring of the lowercased text of
\* the item's title and content; otherwise it is kept.  Matching ignores
\* case: a keyword that occurs in the text under any casing rejects the
\* item.  An empty blacklist rejects nothing.
C10_RejectedIffKeywordOccurs ==
    Filtered =>
        /\ \A i \in 1..Len(kw_articles) :
              LET item == kw_articles[i]
                  hit == \E k \in 1..Len(BLACKLIST_KEYWORDS) :
                            KeywordMatches(BLACKLIST_KEYWORDS[k], item)
                  hitAnyCase == \E k \in 1..Len(BLACKLIST_KEYWORDS) :
                            Occurs(Upper(BLACKLIST_KEYWORDS[k]),
                                   Upper(TitleAndContent(item)))
              IN  /\ Rejected(item) <=> hit
                  /\ Accepted(item) <=> ~hit
                  /\ hitAnyCase => Rejected(item)
        /\ BLACKLIST_KEYWORDS = <<>> => blacklisted_articles = <<>>

\* C10 witness: a non-empty blacklist rejected an item in whose text no
\* keyword occurs as written (only under lowercasing), and kept another.
C10_Witness ==
    /\ Filtered
    /\ BLACKLIST_KEYWORDS # <<>>
    /\ \E i \in 1..Len(kw_articles) :
          /\ Rejected(kw_articles[i])
          /\ \A k \in 1..Len(BLACKLIST_KEYWORDS) :
                ~Occurs(BLACKLIST_KEYWORDS[k], TitleAndContent(kw_articles[i]))
    /\ \E i \in 1..Len(kw_articles) : Accepted(kw_articles[i])

\* Positions of the blacklist whose keyword matches the item.
MatchingPositions(item) ==
    { k \in 1..Len(BLACKLIST_KEYWORDS) : KeywordMatches(BLACKLIST_KEYWORDS[k], item) }
\* The first keyword, in list order, that matches the item.
FirstMatchingKeyword(item) ==
    BLACKLIST_KEYWORDS[CHOOSE k \in MatchingPositions(item) :
                          \A other \in MatchingPositions(item) : k <= other]
RejectedWithReason(keyword) ==
    { i \in 1..Len(blacklisted_articles) :
        FirstMatchingKeyword(blacklisted_articles[i]) = keyword }
RECURSIVE SumOfCounts(_)
SumOfCounts(stats) ==
    IF stats = <<>> THEN 0 ELSE Head(stats).count + SumOfCounts(Tail(stats))

\* C11: the reason recorded for a rejected item is the first keyword, in
\* blacklist order, that matches it: the count of every keyword of
\* blacklist_stats is the number of rejected items whose first matching
\* keyword it is, every rejected item's first matching keyword has an entry,
\* no keyword has two entries, and the counts add up to the number of
\* rejected items.
C11_FirstKeywordIsReason ==
    Filtered =>
        /\ \A i, j \in 1..Len(blacklist_stats) :
              blacklist_stats[i].keyword = blacklist_stats[j].keyword => i = j
        /\ \A i \in 1..Len(blacklist_stats) :
              /\ blacklist_stats[i].count >= 1
              /\ blacklist_stats[i].count =
                    Cardinality(RejectedWithReason(blacklist_stats[i].keyword))
        /\ \A i \in 1..Len(blacklisted_articles) :
              \E j \in 1..Len(blacklist_stats) :
                  blacklist_stats[j].keyword =
                      FirstMatchingKeyword(blacklisted_articles[i])
        /\ SumOfCounts(blacklist_stats) = Len(blacklisted_articles)

\* C11 witness: two items were rejected, one of them matched by two
\* different keywords of the blacklist, and two reasons were recorded.
C11_Witness ==
    /\ Filtered
    /\ Len(blacklisted_articles) = 2
    /\ Len(blacklist_stats) = 2
    /\ \E i \in 1..Len(blacklisted_articles) :
          /\ Cardinality(MatchingPositions(blacklisted_articles[i])) = 2
          /\ BLACKLIST_KEYWORDS[1] # BLACKLIST_KEYWORDS[2]

\* out holds items of the input, each at most once, in input order, with
\* every field as in the input.
IsSubsequenceOfInput(out) ==
    /\ \A i \in 1..Len(out) :
          /\ out[i].id \in 1..Len(kw_articles)
          /\ out[i] = kw_articles[out[i].id]
    /\ \A i, j \in 1..Len(out) : i < j => out[i].id < out[j].id
PositionsOf(out) == { out[i].id : i \in 1..Len(out) }

\* C27: the kept list and the rejected list of filter_by_blacklist are each
\* a subsequence of the input in input order; together they contain every
\* input item exactly once, so that input_count = filtered_count +
\* blacklisted_count; no field of an item is changed, and the input list
\* itself is left as it was.
C27_OnlyIncludesOrExcludes ==
    Filtered =>
        /\ IsSubsequenceOfInput(kept_articles)
        /\ IsSubsequenceOfInput(blacklisted_articles)
        /\ PositionsOf(kept_articles) \cup PositionsOf(blacklisted_articles)
              = 1..Len(kw_articles)
        /\ PositionsOf(kept_articles) \cap PositionsOf(blacklisted_articles) = {}
        /\ Len(kw_articles) = Len(kept_articles) + Len(blacklisted_articles)
        /\ simple_filter(kw_articles).stats.input_count =
              simple_filter(kw_articles).stats.filtered_count
                + simple_filter(kw_articles).stats.blacklisted_count
        /\ simple_filter(kw_articles).filtered_articles = kept_articles

\* C27 witness: two items that differ were kept, or two that differ were
\* rejected, under a blacklist that matches something.
C27_Witness ==
    /\ Filtered
    /\ BLACKLIST_KEYWORDS # <<>>
    /\ \/ Len(kept_articles) = 2 /\ kept_articles[1].title # kept_articles[2].title
       \/ /\ Len(blacklisted_articles) = 2
          /\ blacklisted_articles[1].content # blacklisted_articles[2].content

----------------------------------------------------------------------------
(* Claims about filter_by_score (specification SpecSel) *)

Selected == pc = "selected"
SelectionEnded == pc \in {"selected", "failed"}
ClusterMembers(k) == Range(Members(emb_articles, clusters[k].article_indices))
ClusterSize(k) == Len(clusters[k].article_indices)
ClusterAccepted(k) == ScoreOf(cluster_scores, clusters[k].id) > 0
Survivors(k) == ClusterMembers(k) \cap Range(filtered_articles)
Capped(k) == ClusterAccepted(k) /\ ClusterSize(k) > ClusterCap

\* C12 as stated: of every cluster either all members are kept or none is.
C12_AllOrNone ==
    Selected =>
        \A k \in 1..Len(clusters) :
            Survivors(k) = ClusterMembers(k) \/ Survivors(k) = {}

\* C12: the score decides for the whole cluster, the cap then bounds it: a
\* cluster of score 0 has no member in the kept output, an accepted cluster
\* of at most 5 members has all of them in it, and an accepted cluster of
\* more than 5 members has exactly 5 of them in it.
C12_WholeClusterUpToCap ==
    Selected =>
        \A k \in 1..Len(clusters) :
            /\ ~ClusterAccepted(k) => Survivors(k) = {}
            /\ ClusterAccepted(k) /\ ClusterSize(k) <= ClusterCap =>
                  Survivors(k) = ClusterMembers(k)
            /\ Capped(k) => Cardinality(Survivors(k)) = ClusterCap

\* C12 witness: a pass with a rejected cluster that has members and an
\* accepted cluster kept in full.
C12_Witness ==
    /\ Selected
    /\ \E k \in 1..Len(clusters) : ~ClusterAccepted(k) /\ ClusterSize(k) >= 2
    /\ \E k \in 1..Len(clusters) :
          ClusterAccepted(k) /\ ClusterSize(k) >= 2 /\ Survivors(k) = ClusterMembers(k)

HasTimestamp(item) == item.published \notin {Absent, NoPublished}
\* Oldest for an item without a timestamp, its published value otherwise.
Recency(item) == IF HasTimestamp(item) THEN item.published ELSE NoPublished
\* m is before d in the cluster's order (the order of the indices).
EarlierInCluster(m, d) == m.id < d.id

\* C13 as stated: an accepted cluster of more than 5 members leaves exactly
\* 5 survivors, the 5 with the latest published values, equal values in
\* cluster order, members without a timestamp as oldest.
C13_CapKeepsFiveMostRecent ==
    SelectionEnded =>
        \A k \in 1..Len(clusters) :
            Capped(k) =>
                /\ Cardinality(Survivors(k)) = ClusterCap
                /\ \A m \in Survivors(k), d \in ClusterMembers(k) \ Survivors(k) :
                      \/ Recency(m) > Recency(d)
                      \/ Recency(m) = Recency(d) /\ EarlierInCluster(m, d)

\* C19 as stated, for filter_by_score: a batch with an item without a
\* published timestamp completes, and the item is not excluded for that
\* reason from a cluster that is kept in full.
C19_MissingPublishedNeverFails ==
    (SelectionEnded /\ \E i \in 1..Len(emb_articles) : ~HasTimestamp(emb_articles[i])) =>
        /\ raised = ""
        /\ \A k \in 1..Len(clusters) :
              ClusterAccepted(k) /\ ClusterSize(k) <= ClusterCap =>
                  ClusterMembers(k) \subseteq Range(filtered_articles)

Min(a, b) == IF a <= b THEN a ELSE b

\* The sum over the accepted clusters k..Len(clusters) of min(size, 5).
RECURSIVE ExpectedKept(_)
ExpectedKept(k) ==
    IF k > Len(clusters) THEN 0
    ELSE (IF ClusterAccepted(k) THEN Min(ClusterSize(k), ClusterCap) ELSE 0)
            + ExpectedKept(k + 1)

\* The items of the kept output that belong to the k-th cluster, in output
\* order.
KeptOf(k) ==
    LET inCluster(item) == item \in ClusterMembers(k)
    IN  SelectSeq(filtered_articles, inCluster)

\* C26: the number of items filter_by_score returns is the sum over the
\* accepted clusters (score > 0) of min(cluster size, 5); an accepted cluster
\* of at most 5 members is in the output in full and in its member order; a
\* cluster of score 0 contributes no item whatever its size.
C26_OutputSize ==
    Selected =>
        /\ Len(filtered_articles) = ExpectedKept(1)
        /\ \A k \in 1..Len(clusters) :
              /\ (ClusterAccepted(k) /\ ClusterSize(k) <= ClusterCap) =>
                    KeptOf(k) = Members(emb_articles, clusters[k].article_indices)
              /\ ClusterAccepted(k) => Len(KeptOf(k)) = Min(ClusterSize(k), ClusterCap)
              /\ ~ClusterAccepted(k) => KeptOf(k) = <<>>

\* C26 witness: an accepted cluster of more than 5 members gave 5 items.
C26_Witness ==
    /\ Selected
    /\ \E k \in 1..Len(clusters) : Capped(k)
    /\ Len(filtered_articles) = ClusterCap

----------------------------------------------------------------------------
(* Claims about score_clusters (specification SpecScore) *)

Scored == pc \in {"scored", "selected"}
\* The pooled text of the k-th cluster.
PooledText(k) == JoinBlobs(Members(emb_articles, clusters[k].article_indices))
ClusterScore(k) == ScoreOf(cluster_scores, clusters[k].id)
\* word occurs in text at a place where a word begins before it and ends
\* after it (a word boundary on both sides).
OccursAsWholeWord(word, text) ==
    \E at \in 1..Len(text) :
        LET last == at + Len(word) - 1
        IN  /\ last <= Len(text)
            /\ \A j \in 1..Len(word) : text[at + j - 1] = word[j]
            /\ IsWordChar(word[1]) # (at > 1 /\ IsWordChar(text[at - 1]))
            /\ IsWordChar(word[Len(word)]) #
                  (last < Len(text) /\ IsWordChar(text[last + 1]))
BlacklistHits(k) ==
    { w \in 1..Len(blacklist) : OccursAsWholeWord(blacklist[w], PooledText(k)) }
RelevanceHits(k) ==
    { word \in Range(relevance) : Occurs(word, PooledText(k)) }
FirstBlacklistHit(k) ==
    blacklist[CHOOSE w \in BlacklistHits(k) : \A other \in BlacklistHits(k) : w <= other]
ReasonsOf(k) ==
    { rejected_clusters[r].reason :
        r \in { q \in 1..Len(rejected_clusters) :
                  rejected_clusters[q].id = clusters[k].id } }

\* C14: a cluster whose pooled text holds a blacklist keyword as a whole
\* word has score 0, whatever relevance keywords the text holds, and the
\* reason recorded for it is the first blacklist keyword, in list order,
\* that matches.
C14_BlacklistWordRejectsCluster ==
    Scored =>
        \A k \in 1..Len(clusters) :
            BlacklistHits(k) # {} =>
                /\ ClusterScore(k) = 0
                /\ ReasonsOf(k) = {FirstBlacklistHit(k)}

\* C14 witness: a rejected cluster whose text holds two blacklist keywords
\* as whole words, the first of the list not among them, and a relevance
\* keyword.
C14_Witness ==
    /\ Scored
    /\ \E k \in 1..Len(clusters) :
          /\ Cardinality(BlacklistHits(k)) = 2
          /\ 1 \notin BlacklistHits(k)
          /\ RelevanceHits(k) # {}
          /\ ClusterScore(k) = 0

\* C15: a cluster without a whole-word blacklist match has the score
\* 100 + 10 * k, k the number of relevance keywords that are substrings of
\* its pooled text; every score is 0 or at least 100; a cluster is accepted
\* (score > 0) exactly when it has no blacklist match.
C15_ScoreIsBasePlusBoost ==
    Scored =>
        \A k \in 1..Len(clusters) :
            /\ BlacklistHits(k) = {} =>
                  ClusterScore(k) = 100 + 10 * Cardinality(RelevanceHits(k))
            /\ ClusterScore(k) = 0 \/ ClusterScore(k) >= 100
            /\ ClusterScore(k) > 0 <=> BlacklistHits(k) = {}

\* C15 witness: an accepted cluster with a score of 120 or more whose text
\* holds a blacklist keyword inside a longer word, and a relevance keyword
\* more than once.
C15_Witness ==
    /\ Scored
    /\ \E k \in 1..Len(clusters) :
          /\ ClusterScore(k) >= 120
          /\ \E w \in 1..Len(blacklist) : Occurs(blacklist[w], PooledText(k))
          /\ \E word \in RelevanceHits(k) :
                \E i, j \in 1..Len(PooledText(k)) :
                    /\ i < j
                    /\ SubSeq(PooledText(k), i, i + Len(word) - 1) = word
                    /\ j + Len(word) - 1 <= Len(PooledText(k))
                    /\ SubSeq(PooledText(k), j, j + Len(word) - 1) = word

\* The text of one member by itself.
OwnText(item) == ArticleBlob(item)
\* Some member's own text holds a blacklist keyword as a whole word.
RejectedOnOwnEvidence(k) ==
    \E item \in Range(Members(emb_articles, clusters[k].article_indices)) :
        \E w \in 1..Len(blacklist) : OccursAsWholeWord(blacklist[w], OwnText(item))

\* C29 as stated: score_clusters gives a cluster score 0 only if the text of
\* some single member (its lowercased title and the first 200 characters of
\* its lowercased content) by itself holds a blacklist keyword as a whole
\* word; a match that exists only across the join of two members' texts
\* rejects no cluster.
C29_RejectedOnlyOnOwnEvidence ==
    Scored =>
        \A k \in 1..Len(clusters) :
            ClusterScore(k) = 0 => RejectedOnOwnEvidence(k)

----------------------------------------------------------------------------
(* Claims about cluster_articles (specification SpecDb) *)

Clustered == pc \in {"clustered", "reclustered"}
Reclustered == pc = "reclustered"
Indices == 1..Len(embeddings)
MemberSet(cluster) == Range(cluster.article_indices)
\* The membership sets of a clusters dict.
Partition(cls) == { MemberSet(cls[k]) : k \in 1..Len(cls) }
IsPartition(cls) ==
    /\ \A k \in 1..Len(cls) : cls[k].article_indices # <<>>
    /\ \A k \in 1..Len(cls) :
          \A i, j \in 1..Len(cls[k].article_indices) :
              i # j => cls[k].article_indices[i] # cls[k].article_indices[j]
    /\ \A k, q \in 1..Len(cls) : k # q => MemberSet(cls[k]) \cap MemberSet(cls[q]) = {}
    /\ UNION Partition(cls) = Indices

\* C16: cluster_articles assigns every index to exactly one cluster: the
\* clusters are non-empty, pairwise disjoint and cover all indices; no
\* index has the noise label; one vector gives one cluster of that index.
C16_EveryIndexInOneCluster ==
    Clustered =>
        /\ IsPartition(clusters)
        /\ \A i \in Indices : labels[i] # Noise
        /\ \A k \in 1..Len(clusters) : clusters[k].id # Noise
        /\ Len(embeddings) = 1 =>
              /\ Len(clusters) = 1
              /\ clusters[1].article_indices = <<1>>

\* C16 witness: three vectors in two clusters, one of them a vector with no
\* other vector within eps, the other two vectors within eps of each other.
C16_Witness ==
    /\ Clustered
    /\ Len(embeddings) = 3
    /\ Len(clusters) = 2
    /\ \E i \in Indices : Neighborhood(embeddings, i) = {i}
    /\ \E i, j \in Indices : i # j /\ embeddings[i] # embeddings[j]
                             /\ WithinEps(embeddings[i], embeddings[j])

\* C17: two runs of cluster_articles on the same vectors give the same
\* partition of the indices; the labels may differ.
C17_SamePartitionOnRerun ==
    Reclustered => Partition(rerun_clusters) = Partition(clusters)

\* C17 witness: two runs that number the clusters differently, one cluster
\* holding two different vectors.
C17_Witness ==
    /\ Reclustered
    /\ rerun_labels # labels
    /\ \E k \in 1..Len(clusters) :
          \E i, j \in MemberSet(clusters[k]) : embeddings[i] # embeddings[j]

----------------------------------------------------------------------------
(* Claims about degenerate batches (specification SpecAgg) *)

\* C18 as stated, for aggregation dedup: called with an empty batch the
\* operation raises nothing and returns an empty list.
C18_EmptyBatchNeverFails ==
    (pc # "start" /\ articles = <<>>) =>
        /\ raised = ""
        /\ unique_articles = <<>>

----------------------------------------------------------------------------
(* Claim about the missing embedding dependency (specification SpecPass)   *)

PassEnded == pc = "ended" /\ pass_entry # ""

EmbeddingRequested == pass_mode \in {"embedding", "benchmark"}

PassBatch == IF pass_entry = "main" THEN emb_articles ELSE kw_articles

DependencyMissing ==
    IF pass_entry = "main"
    THEN ~embedder_available \/ ~sklearn_available
    ELSE ~embedder_available

ExplicitFailure == pass_status \in {"HTTP 500", "exit 1"}

\* C20: when embedding-based filtering is requested on a batch and the
\* embedding or clustering dependency cannot be loaded, the pass ends in an
\* explicit failure reported to the caller: it neither returns a result nor
\* ends with a success status.
C20_MissingDependencyFailsExplicitly ==
    (PassEnded /\ EmbeddingRequested /\ PassBatch # <<>> /\ DependencyMissing)
        => ExplicitFailure

----------------------------------------------------------------------------
(* Claims about the stats dicts (specification SpecStats) *)

Reported == pc = "reported"
ReportedBy(function) == Reported /\ stats_entry = function
\* The reasons left out of top_blacklist_reasons.
LeftOut(top) ==
    { blacklist_stats[i] : i \in 1..Len(blacklist_stats) } \ Range(top)

\* C25: top_blacklist_reasons of simple_filter has at most 10 entries, each
\* a keyword of the batch with its count and none twice, in order of
\* non-increasing count; it holds all reasons when there are at most 10, and
\* no keyword left out has a strictly higher count than a keyword included.
C25_TopReasons ==
    ReportedBy("simple_filter") =>
        LET top == filter_stats.top_blacklist_reasons
        IN  /\ Len(top) <= TopReasons
            /\ Len(top) = Min(Len(blacklist_stats), TopReasons)
            /\ \A i \in 1..Len(top) :
                  \E j \in 1..Len(blacklist_stats) : top[i] = blacklist_stats[j]
            /\ \A i, j \in 1..Len(top) : top[i].keyword = top[j].keyword => i = j
            /\ \A i, j \in 1..Len(top) : i < j => top[i].count >= top[j].count
            /\ \A out \in LeftOut(top) :
                  \A i \in 1..Len(top) : out.count <= top[i].count

\* C25 witness: eleven keywords rejected items, the first of them once and a
\* later one twice; a keyword is left out of the ten reported.
C25_Witness ==
    /\ ReportedBy("simple_filter")
    /\ Len(blacklist_stats) = TopReasons + 1
    /\ blacklist_stats[1].count = 1
    /\ \E j \in 2..Len(blacklist_stats) : blacklist_stats[j].count = 2
    /\ LeftOut(filter_stats.top_blacklist_reasons) # {}

\* The rate a stats dict reports: deduplication_rate for the dedup stage,
\* reduction_rate for the filters; <<>> when the dict has no such entry.
ReportedRate ==
    IF stats_entry = "main" THEN filter_stats.deduplication_rate
    ELSE IF "reduction_rate" \in DOMAIN filter_stats THEN filter_stats.reduction_rate
    ELSE <<>>

\* text is the number of tenths t written with one decimal and a '%'.
WritesTenths(text, t) ==
    text = Digits(t \div 10) \o <<".", DigitChar(t % 10), "%">>

\* t tenths is r / n * 100 rounded to one decimal place.
IsRounded(t, r, n) ==
    LET distance == IF 1000 * r >= t * n THEN 1000 * r - t * n ELSE t * n - 1000 * r
    IN  2 * distance <= n

\* C23 as stated: for n > 0 inputs and 0 <= r <= n rejected the reported
\* rate is r / n * 100 rounded to one decimal place followed by '%'; for
\* n = 0 it is exactly "0%"; for simple_filter,
\* cluster_and_filter_with_embeddings, embedding_based_blacklist_filter and
\* the deduplication_rate of the dedup stage.
C23_RateString ==
    Reported =>
        IF total_input > 0
        THEN \E t \in 0..1000 :
                /\ IsRounded(t, rejected_count, total_input)
                /\ WritesTenths(ReportedRate, t)
        ELSE ReportedRate = <<"0", "%">>

----------------------------------------------------------------------------
(* Claim about the dedup stage's main flow (specification SpecMain) *)

HistoryChosen == pc \in {"history", "done"}
InputInAggregatedDir == input_path.dir = "aggregated"
\* Links of the files of the directory other than the input file.
OtherLinks ==
    UNION { LinksOf(dir_contents[n].articles) :
              n \in { m \in aggregated_dir : m # input_path.name } }

\* C28 as stated: whenever the input file lies in the aggregated directory,
\* chosen as the latest file or passed as a relative or absolute path, it is
\* not in the history file list, and an item of it whose link is in no other
\* file is not removed.
C28_InputNotInOwnHistory ==
    (HistoryChosen /\ InputInAggregatedDir) =>
        /\ input_path.name \notin Range(recent_files)
        /\ pc = "done" =>
              \A i \in 1..Len(articles) :
                  articles[i].link \notin OtherLinks =>
                      articles[i] \in Range(new_articles)


----------------------------------------------------------------------------
(* Claims about the chat messages (specification SpecDiscord) *)

\* C30: every chunk split_content_by_sections produces, and every message
\* post_to_thread builds from a chunk, is at most DISCORD_MESSAGE_LIMIT
\* characters long.
C30_MessagesWithinLimit ==
    /\ pc \in {"split", "posted"} =>
          \A i \in 1..Len(chunks) : JoinLen(chunks[i].lines) <= DISCORD_MESSAGE_LIMIT
    /\ pc = "posted" =>
          \A i \in 1..Len(messages) : messages[i].length <= DISCORD_MESSAGE_LIMIT


----------------------------------------------------------------------------
(* Claims about the category embedding cache (specification SpecCache) *)

\* C21: whatever the interleaving of the callers, model.encode runs at most
\* once for each category, and every call that has returned has returned the
\* one mapping the cache holds (the cache, once set, is never replaced).
C21_EncodedOncePerCategory ==
    pc = "serving" =>
        /\ \A c \in BLACKLIST_CATEGORIES : encode_calls[c] <= 1
        /\ \A t \in Callers :
              callers[t].at = "returned" =>
                  callers[t].result = CATEGORY_EMBEDDINGS_CACHE


----------------------------------------------------------------------------
(* Claims about the remote filter call (specification SpecRemote) *)

\* The call failed: it timed out or could not be run, ssh/curl ended with a
\* non-zero status, the output is no JSON, or the response is no object
\* holding both filtered_articles and stats.
RemoteCallFailed ==
    \/ subprocess_result.kind # "completed"
    \/ subprocess_result.returncode # 0
    \/ ~subprocess_result.stdout.json
    \/ ~subprocess_result.stdout.object
    \/ ~({"filtered_articles", "stats"} \subseteq subprocess_result.stdout.fields)

\* C22: every failure of the remote call makes filter_via_remote_service
\* raise and return no article list (main then exits with status 1); every
\* other response is returned as (filtered_articles, stats) without an
\* error, also when filtered_articles is empty.
C22_FailureRaisesEmptyReturns ==
    pc # "loaded" =>
        IF RemoteCallFailed
        THEN /\ remote_return.raised = "Exception"
             /\ ~remote_return.returned
             /\ remote_return.filtered_articles = <<>>
             /\ pc = "exited" /\ exit_code = 1
        ELSE /\ remote_return.raised = ""
             /\ remote_return.returned
             /\ remote_return.filtered_articles
                   = subprocess_result.stdout.filtered_articles
             /\ remote_return.stats = subprocess_result.stdout.stats
             /\ pc # "exited"

\* Articles were sent and the service answered, with status 0, an error body
\* that holds neither filtered_articles nor stats: the call has raised.
C22_Witness ==
    /\ pc = "exited"
    /\ articles # <<>>
    /\ subprocess_result.kind = "completed"
    /\ subprocess_result.returncode = 0
    /\ subprocess_result.stdout.object
    /\ subprocess_result.stdout.fields = {"detail"}
    /\ remote_return.raised = "Exception"

====
